---- MODULE Spec2Model ----
(***************************************************************************)
(* A model of the matching / indexing engine of the Astro Catalogue Viewer *)
(* (app/catalog.py and the batch scripts under scripts/).                  *)
(*                                                                         *)
(* Text is modelled as sequences of one-character strings, so that the     *)
(* regular expression of the extractor, case folding, int() and string     *)
(* formatting are computed character by character as the code does.        *)
(***************************************************************************)
EXTENDS Integers, Sequences, FiniteSets, TLC

VARIABLES
  pc,            \* position of the running operation
  stem,          \* _extract_object_ids: the argument
  ids,           \* _extract_object_ids: the returned list
  object_ids,    \* _expand_catalog_aliases: the argument
  expanded,      \* _expand_catalog_aliases: the returned list
  reexpanded,    \* _expand_catalog_aliases applied to its own result
  files,         \* the image files on disk: [dir, name], dir a real directory
  image_dirs,    \* _build_image_index: the directories to walk, in order
  walked,        \* _build_image_index: number of image_dirs walked so far
  index,         \* _build_image_index: object id -> list of image paths
  seen,          \* _build_image_index: object id -> set of resolved paths
  sha256,        \* the SHA-256 digest of each file on disk
  config,        \* config.json: [catalogs, master_image_dir], a catalog [name, image_dirs]
  scanned,       \* duplicate detector: number of catalogs scanned so far
  groups,        \* duplicate detector: the duplicate groups found
  report,        \* duplicate detector: the lines of the text report written
  payload,       \* duplicate detector: the JSON report written
  dirs,          \* master router: the directories that exist
  readonly,      \* master router: the directories that refuse new files
  listed,        \* master router: paths os.walk has listed and not yet yielded
  pending,       \* master router: subdirectories os.walk has still to list
  moved,         \* master router: the moved counter
  skipped,       \* master router: the skipped counter
  metadata,      \* the metadata files on disk: file name -> content
  items,         \* load_catalog_items: the list of records built so far
  loaded,        \* load_catalog_items: number of catalogs processed so far
  image_paths,   \* _select_thumbnail: the path list
  thumbnail_value, \* _select_thumbnail: the metadata thumbnail value
  thumbnail_path,  \* _select_thumbnail: the returned path
  writers,       \* save_*: each running call's operation, position and data
  month_args,    \* _adjust_best_months: the arguments [best_months, latitude]
  adjusted,      \* _adjust_best_months: the returned string
  readjusted,    \* _adjust_best_months applied to its own result
  compute_args,  \* _compute_best_months: the arguments [ra_hours, dec_deg, lat_deg, lon_deg]
  computed,      \* _compute_best_months: how the call ended and what it returned
  note_call      \* save_note between two loads: the arguments, whether it ran, the records loaded before

extractVars == <<stem, ids>>
expandVars == <<object_ids, expanded, reexpanded>>
indexVars == <<files, image_dirs, walked, index, seen>>
dupVars == <<sha256, config, scanned, groups, report, payload>>
routerVars == <<dirs, readonly, listed, pending, moved, skipped>>
loadVars == <<metadata, items, loaded>>
thumbVars == <<image_paths, thumbnail_value, thumbnail_path>>
saveVars == <<writers>>
monthVars == <<month_args, adjusted, readjusted>>
computeVars == <<compute_args, computed>>
noteVars == <<note_call>>
vars == <<pc, extractVars, expandVars, indexVars, dupVars, routerVars,
          loadVars, thumbVars, saveVars, monthVars, computeVars, noteVars>>

\* the variables of a component that is not running
ExtractIdle ==
  /\ stem = <<>>
  /\ ids = <<>>

ExpandIdle ==
  /\ object_ids = <<>>
  /\ expanded = <<>>
  /\ reexpanded = <<>>

IndexIdle ==
  /\ files = {}
  /\ image_dirs = <<>>
  /\ walked = 0
  /\ index = <<>>
  /\ seen = <<>>

DupIdle ==
  /\ sha256 = <<>>
  /\ config = <<>>
  /\ scanned = 0
  /\ groups = <<>>
  /\ report = <<>>
  /\ payload = <<>>

RouterIdle ==
  /\ dirs = {}
  /\ readonly = {}
  /\ listed = {}
  /\ pending = {}
  /\ moved = 0
  /\ skipped = 0

LoadIdle ==
  /\ metadata = <<>>
  /\ items = <<>>
  /\ loaded = 0

ThumbIdle ==
  /\ image_paths = <<>>
  /\ thumbnail_value = <<>>
  /\ thumbnail_path = <<>>

SaveIdle == writers = <<>>

MonthIdle ==
  /\ month_args = <<>>
  /\ adjusted = <<>>
  /\ readjusted = <<>>

ComputeIdle ==
  /\ compute_args = <<>>
  /\ computed = <<>>

NoteIdle == note_call = <<>>

(***************************************************************************)
(* Bounds of the model.                                                    *)
(***************************************************************************)
\* number of pieces a filename stem is assembled from
MaxPieces == 3
\* length of the id lists given to _expand_catalog_aliases
MaxIds == 3
\* number of image files on disk
MaxFiles == 2
\* number of entries of a catalog's image_dirs list
MaxDirs == 2
\* number of image paths of one object
MaxPaths == 3

(***************************************************************************)
(* Characters.                                                             *)
(***************************************************************************)
LOWER == <<"a","b","c","d","e","f","g","h","i","j","k","l","m",
           "n","o","p","q","r","s","t","u","v","w","x","y","z">>
UPPER == <<"A","B","C","D","E","F","G","H","I","J","K","L","M",
           "N","O","P","Q","R","S","T","U","V","W","X","Y","Z">>
DIGITS == <<"0","1","2","3","4","5","6","7","8","9">>

Range(f) == {f[i] : i \in DOMAIN f}

IndexOf(seq, c) == CHOOSE i \in DOMAIN seq : seq[i] = c

\* str.upper() / str.lower() on one character
CharUpper(c) == IF c \in Range(LOWER) THEN UPPER[IndexOf(LOWER, c)] ELSE c
CharLower(c) == IF c \in Range(UPPER) THEN LOWER[IndexOf(UPPER, c)] ELSE c

\* str.upper() / str.lower()
Upper(s) == [i \in DOMAIN s |-> CharUpper(s[i])]
Lower(s) == [i \in DOMAIN s |-> CharLower(s[i])]

\* \d of the regular expressions
IsDigit(c) == c \in Range(DIGITS)
\* [\s_-] of the regular expressions
IsSep(c) == c \in {" ", "_", "-"}
\* [a-z0-9] of the short-alias pattern
IsLowerAlnum(c) == c \in Range(LOWER) \/ c \in Range(DIGITS)

\* int(number) of a digit string
RECURSIVE StrToInt(_)
StrToInt(d) ==
  IF d = <<>> THEN 0
  ELSE 10 * StrToInt(SubSeq(d, 1, Len(d) - 1)) + (IndexOf(DIGITS, d[Len(d)]) - 1)

\* str(n) of a natural number, as f"{...}" formats it
RECURSIVE IntToStr(_)
IntToStr(n) ==
  IF n < 10 THEN <<DIGITS[n + 1]>>
  ELSE IntToStr(n \div 10) \o <<DIGITS[(n % 10) + 1]>>

\* the text of a catalog prefix
PrefixChars(p) ==
  CASE p = "NGC" -> <<"N","G","C">>
    [] p = "IC" -> <<"I","C">>
    [] p = "M" -> <<"M">>
    [] p = "C" -> <<"C">>

\* the literal "<prefix><number>" of the alias tables
Id(p, n) == PrefixChars(p) \o IntToStr(n)

\* s[i:].startswith(w)
StartsAt(s, i, w) ==
  /\ i >= 1
  /\ i + Len(w) - 1 <= Len(s)
  /\ SubSeq(s, i, i + Len(w) - 1) = w

\* w in s
Contains(s, w) == \E i \in 1..(Len(s) - Len(w) + 1) : StartsAt(s, i, w)

\* a list kept as it is
Dedupe_Not(xs) == xs

\* list(dict.fromkeys(xs)): first occurrences, in order
RECURSIVE Dedupe(_)
Dedupe(xs) ==
  IF xs = <<>> THEN <<>>
  ELSE LET init == Dedupe(SubSeq(xs, 1, Len(xs) - 1))
           x == xs[Len(xs)]
       IN IF x \in Range(init) THEN init ELSE Append(init, x)

MESSIER_TO_NGC ==
  <<
    <<Id("M", 1), <<Id("NGC", 1952)>>>>,
    <<Id("M", 2), <<Id("NGC", 7089)>>>>,
    <<Id("M", 3), <<Id("NGC", 5272)>>>>,
    <<Id("M", 4), <<Id("NGC", 6121)>>>>,
    <<Id("M", 5), <<Id("NGC", 5904)>>>>,
    <<Id("M", 6), <<Id("NGC", 6405)>>>>,
    <<Id("M", 7), <<Id("NGC", 6475)>>>>,
    <<Id("M", 8), <<Id("NGC", 6523)>>>>,
    <<Id("M", 9), <<Id("NGC", 6333)>>>>,
    <<Id("M", 10), <<Id("NGC", 6254)>>>>,
    <<Id("M", 11), <<Id("NGC", 6705)>>>>,
    <<Id("M", 12), <<Id("NGC", 6218)>>>>,
    <<Id("M", 13), <<Id("NGC", 6205)>>>>,
    <<Id("M", 14), <<Id("NGC", 6402)>>>>,
    <<Id("M", 15), <<Id("NGC", 7078)>>>>,
    <<Id("M", 16), <<Id("NGC", 6611)>>>>,
    <<Id("M", 17), <<Id("NGC", 6618)>>>>,
    <<Id("M", 18), <<Id("NGC", 6613)>>>>,
    <<Id("M", 19), <<Id("NGC", 6273)>>>>,
    <<Id("M", 20), <<Id("NGC", 6514)>>>>,
    <<Id("M", 21), <<Id("NGC", 6531)>>>>,
    <<Id("M", 22), <<Id("NGC", 6656)>>>>,
    <<Id("M", 23), <<Id("NGC", 6494)>>>>,
    <<Id("M", 24), <<Id("NGC", 6603)>>>>,
    <<Id("M", 25), <<Id("IC", 4725)>>>>,
    <<Id("M", 26), <<Id("NGC", 6694)>>>>,
    <<Id("M", 27), <<Id("NGC", 6853)>>>>,
    <<Id("M", 28), <<Id("NGC", 6626)>>>>,
    <<Id("M", 29), <<Id("NGC", 6913)>>>>,
    <<Id("M", 30), <<Id("NGC", 7099)>>>>,
    <<Id("M", 31), <<Id("NGC", 224)>>>>,
    <<Id("M", 32), <<Id("NGC", 221)>>>>,
    <<Id("M", 33), <<Id("NGC", 598)>>>>,
    <<Id("M", 34), <<Id("NGC", 1039)>>>>,
    <<Id("M", 35), <<Id("NGC", 2168)>>>>,
    <<Id("M", 36), <<Id("NGC", 1960)>>>>,
    <<Id("M", 37), <<Id("NGC", 2099)>>>>,
    <<Id("M", 38), <<Id("NGC", 1912)>>>>,
    <<Id("M", 39), <<Id("NGC", 7092)>>>>,
    <<Id("M", 41), <<Id("NGC", 2287)>>>>,
    <<Id("M", 42), <<Id("NGC", 1976)>>>>,
    <<Id("M", 43), <<Id("NGC", 1982)>>>>,
    <<Id("M", 44), <<Id("NGC", 2632)>>>>,
    <<Id("M", 46), <<Id("NGC", 2437)>>>>,
    <<Id("M", 47), <<Id("NGC", 2422)>>>>,
    <<Id("M", 48), <<Id("NGC", 2548)>>>>,
    <<Id("M", 49), <<Id("NGC", 4472)>>>>,
    <<Id("M", 50), <<Id("NGC", 2323)>>>>,
    <<Id("M", 51), <<Id("NGC", 5194)>>>>,
    <<Id("M", 52), <<Id("NGC", 7654)>>>>,
    <<Id("M", 53), <<Id("NGC", 5024)>>>>,
    <<Id("M", 54), <<Id("NGC", 6715)>>>>,
    <<Id("M", 55), <<Id("NGC", 6809)>>>>,
    <<Id("M", 56), <<Id("NGC", 6779)>>>>,
    <<Id("M", 57), <<Id("NGC", 6720)>>>>,
    <<Id("M", 58), <<Id("NGC", 4579)>>>>,
    <<Id("M", 59), <<Id("NGC", 4621)>>>>,
    <<Id("M", 60), <<Id("NGC", 4649)>>>>,
    <<Id("M", 61), <<Id("NGC", 4303)>>>>,
    <<Id("M", 62), <<Id("NGC", 6266)>>>>,
    <<Id("M", 63), <<Id("NGC", 5055)>>>>,
    <<Id("M", 64), <<Id("NGC", 4826)>>>>,
    <<Id("M", 65), <<Id("NGC", 3623)>>>>,
    <<Id("M", 66), <<Id("NGC", 3627)>>>>,
    <<Id("M", 67), <<Id("NGC", 2682)>>>>,
    <<Id("M", 68), <<Id("NGC", 4590)>>>>,
    <<Id("M", 69), <<Id("NGC", 6637)>>>>,
    <<Id("M", 70), <<Id("NGC", 6681)>>>>,
    <<Id("M", 71), <<Id("NGC", 6838)>>>>,
    <<Id("M", 72), <<Id("NGC", 6981)>>>>,
    <<Id("M", 73), <<Id("NGC", 6994)>>>>,
    <<Id("M", 74), <<Id("NGC", 628)>>>>,
    <<Id("M", 75), <<Id("NGC", 6864)>>>>,
    <<Id("M", 76), <<Id("NGC", 650)>>>>,
    <<Id("M", 77), <<Id("NGC", 1068)>>>>,
    <<Id("M", 78), <<Id("NGC", 2068)>>>>,
    <<Id("M", 79), <<Id("NGC", 1904)>>>>,
    <<Id("M", 80), <<Id("NGC", 6093)>>>>,
    <<Id("M", 81), <<Id("NGC", 3031)>>>>,
    <<Id("M", 82), <<Id("NGC", 3034)>>>>,
    <<Id("M", 83), <<Id("NGC", 5236)>>>>,
    <<Id("M", 84), <<Id("NGC", 4374)>>>>,
    <<Id("M", 85), <<Id("NGC", 4382)>>>>,
    <<Id("M", 86), <<Id("NGC", 4406)>>>>,
    <<Id("M", 87), <<Id("NGC", 4486)>>>>,
    <<Id("M", 88), <<Id("NGC", 4501)>>>>,
    <<Id("M", 89), <<Id("NGC", 4552)>>>>,
    <<Id("M", 90), <<Id("NGC", 4569)>>>>,
    <<Id("M", 91), <<Id("NGC", 4548)>>>>,
    <<Id("M", 92), <<Id("NGC", 6341)>>>>,
    <<Id("M", 93), <<Id("NGC", 2447)>>>>,
    <<Id("M", 94), <<Id("NGC", 4736)>>>>,
    <<Id("M", 95), <<Id("NGC", 3351)>>>>,
    <<Id("M", 96), <<Id("NGC", 3368)>>>>,
    <<Id("M", 97), <<Id("NGC", 3587)>>>>,
    <<Id("M", 98), <<Id("NGC", 4192)>>>>,
    <<Id("M", 99), <<Id("NGC", 4254)>>>>,
    <<Id("M", 100), <<Id("NGC", 4321)>>>>,
    <<Id("M", 101), <<Id("NGC", 5457)>>>>,
    <<Id("M", 102), <<Id("NGC", 5866)>>>>,
    <<Id("M", 103), <<Id("NGC", 581)>>>>,
    <<Id("M", 104), <<Id("NGC", 4594)>>>>,
    <<Id("M", 105), <<Id("NGC", 3379)>>>>,
    <<Id("M", 106), <<Id("NGC", 4258)>>>>,
    <<Id("M", 107), <<Id("NGC", 6171)>>>>,
    <<Id("M", 108), <<Id("NGC", 3556)>>>>,
    <<Id("M", 109), <<Id("NGC", 3992)>>>>,
    <<Id("M", 110), <<Id("NGC", 205)>>>>
  >>

NGC_TO_MESSIER ==
  <<
    <<Id("NGC", 205), <<Id("M", 110)>>>>,
    <<Id("NGC", 221), <<Id("M", 32)>>>>,
    <<Id("NGC", 224), <<Id("M", 31)>>>>,
    <<Id("NGC", 581), <<Id("M", 103)>>>>,
    <<Id("NGC", 598), <<Id("M", 33)>>>>,
    <<Id("NGC", 628), <<Id("M", 74)>>>>,
    <<Id("NGC", 650), <<Id("M", 76)>>>>,
    <<Id("NGC", 1039), <<Id("M", 34)>>>>,
    <<Id("NGC", 1068), <<Id("M", 77)>>>>,
    <<Id("NGC", 1904), <<Id("M", 79)>>>>,
    <<Id("NGC", 1912), <<Id("M", 38)>>>>,
    <<Id("NGC", 1952), <<Id("M", 1)>>>>,
    <<Id("NGC", 1960), <<Id("M", 36)>>>>,
    <<Id("NGC", 1976), <<Id("M", 42)>>>>,
    <<Id("NGC", 1982), <<Id("M", 43)>>>>,
    <<Id("NGC", 2068), <<Id("M", 78)>>>>,
    <<Id("NGC", 2099), <<Id("M", 37)>>>>,
    <<Id("NGC", 2168), <<Id("M", 35)>>>>,
    <<Id("NGC", 2287), <<Id("M", 41)>>>>,
    <<Id("NGC", 2323), <<Id("M", 50)>>>>,
    <<Id("NGC", 2422), <<Id("M", 47)>>>>,
    <<Id("NGC", 2437), <<Id("M", 46)>>>>,
    <<Id("NGC", 2447), <<Id("M", 93)>>>>,
    <<Id("NGC", 2548), <<Id("M", 48)>>>>,
    <<Id("NGC", 2632), <<Id("M", 44)>>>>,
    <<Id("NGC", 2682), <<Id("M", 67)>>>>,
    <<Id("NGC", 3031), <<Id("M", 81)>>>>,
    <<Id("NGC", 3034), <<Id("M", 82)>>>>,
    <<Id("NGC", 3351), <<Id("M", 95)>>>>,
    <<Id("NGC", 3368), <<Id("M", 96)>>>>,
    <<Id("NGC", 3379), <<Id("M", 105)>>>>,
    <<Id("NGC", 3556), <<Id("M", 108)>>>>,
    <<Id("NGC", 3587), <<Id("M", 97)>>>>,
    <<Id("NGC", 3623), <<Id("M", 65)>>>>,
    <<Id("NGC", 3627), <<Id("M", 66)>>>>,
    <<Id("NGC", 3992), <<Id("M", 109)>>>>,
    <<Id("NGC", 4192), <<Id("M", 98)>>>>,
    <<Id("NGC", 4254), <<Id("M", 99)>>>>,
    <<Id("NGC", 4258), <<Id("M", 106)>>>>,
    <<Id("NGC", 4303), <<Id("M", 61)>>>>,
    <<Id("NGC", 4321), <<Id("M", 100)>>>>,
    <<Id("NGC", 4374), <<Id("M", 84)>>>>,
    <<Id("NGC", 4382), <<Id("M", 85)>>>>,
    <<Id("NGC", 4406), <<Id("M", 86)>>>>,
    <<Id("NGC", 4472), <<Id("M", 49)>>>>,
    <<Id("NGC", 4486), <<Id("M", 87)>>>>,
    <<Id("NGC", 4501), <<Id("M", 88)>>>>,
    <<Id("NGC", 4548), <<Id("M", 91)>>>>,
    <<Id("NGC", 4552), <<Id("M", 89)>>>>,
    <<Id("NGC", 4569), <<Id("M", 90)>>>>,
    <<Id("NGC", 4579), <<Id("M", 58)>>>>,
    <<Id("NGC", 4590), <<Id("M", 68)>>>>,
    <<Id("NGC", 4594), <<Id("M", 104)>>>>,
    <<Id("NGC", 4621), <<Id("M", 59)>>>>,
    <<Id("NGC", 4649), <<Id("M", 60)>>>>,
    <<Id("NGC", 4736), <<Id("M", 94)>>>>,
    <<Id("NGC", 4826), <<Id("M", 64)>>>>,
    <<Id("NGC", 5024), <<Id("M", 53)>>>>,
    <<Id("NGC", 5055), <<Id("M", 63)>>>>,
    <<Id("NGC", 5194), <<Id("M", 51)>>>>,
    <<Id("NGC", 5236), <<Id("M", 83)>>>>,
    <<Id("NGC", 5272), <<Id("M", 3)>>>>,
    <<Id("NGC", 5457), <<Id("M", 101)>>>>,
    <<Id("NGC", 5866), <<Id("M", 102)>>>>,
    <<Id("NGC", 5904), <<Id("M", 5)>>>>,
    <<Id("NGC", 6093), <<Id("M", 80)>>>>,
    <<Id("NGC", 6121), <<Id("M", 4)>>>>,
    <<Id("NGC", 6171), <<Id("M", 107)>>>>,
    <<Id("NGC", 6205), <<Id("M", 13)>>>>,
    <<Id("NGC", 6218), <<Id("M", 12)>>>>,
    <<Id("NGC", 6254), <<Id("M", 10)>>>>,
    <<Id("NGC", 6266), <<Id("M", 62)>>>>,
    <<Id("NGC", 6273), <<Id("M", 19)>>>>,
    <<Id("NGC", 6333), <<Id("M", 9)>>>>,
    <<Id("NGC", 6341), <<Id("M", 92)>>>>,
    <<Id("NGC", 6402), <<Id("M", 14)>>>>,
    <<Id("NGC", 6405), <<Id("M", 6)>>>>,
    <<Id("NGC", 6475), <<Id("M", 7)>>>>,
    <<Id("NGC", 6494), <<Id("M", 23)>>>>,
    <<Id("NGC", 6514), <<Id("M", 20)>>>>,
    <<Id("NGC", 6523), <<Id("M", 8)>>>>,
    <<Id("NGC", 6531), <<Id("M", 21)>>>>,
    <<Id("NGC", 6603), <<Id("M", 24)>>>>,
    <<Id("NGC", 6611), <<Id("M", 16)>>>>,
    <<Id("NGC", 6613), <<Id("M", 18)>>>>,
    <<Id("NGC", 6618), <<Id("M", 17)>>>>,
    <<Id("NGC", 6626), <<Id("M", 28)>>>>,
    <<Id("NGC", 6637), <<Id("M", 69)>>>>,
    <<Id("NGC", 6656), <<Id("M", 22)>>>>,
    <<Id("NGC", 6681), <<Id("M", 70)>>>>,
    <<Id("NGC", 6694), <<Id("M", 26)>>>>,
    <<Id("NGC", 6705), <<Id("M", 11)>>>>,
    <<Id("NGC", 6715), <<Id("M", 54)>>>>,
    <<Id("NGC", 6720), <<Id("M", 57)>>>>,
    <<Id("NGC", 6779), <<Id("M", 56)>>>>,
    <<Id("NGC", 6809), <<Id("M", 55)>>>>,
    <<Id("NGC", 6838), <<Id("M", 71)>>>>,
    <<Id("NGC", 6853), <<Id("M", 27)>>>>,
    <<Id("NGC", 6864), <<Id("M", 75)>>>>,
    <<Id("NGC", 6913), <<Id("M", 29)>>>>,
    <<Id("NGC", 6981), <<Id("M", 72)>>>>,
    <<Id("NGC", 6994), <<Id("M", 73)>>>>,
    <<Id("NGC", 7078), <<Id("M", 15)>>>>,
    <<Id("NGC", 7089), <<Id("M", 2)>>>>,
    <<Id("NGC", 7092), <<Id("M", 39)>>>>,
    <<Id("NGC", 7099), <<Id("M", 30)>>>>,
    <<Id("NGC", 7654), <<Id("M", 52)>>>>,
    <<Id("IC", 4725), <<Id("M", 25)>>>>
  >>

SOLAR_OBJECTS ==
  <<
    <<"S","u","n">>,
    <<"M","o","o","n">>,
    <<"M","e","r","c","u","r","y">>,
    <<"V","e","n","u","s">>,
    <<"E","a","r","t","h">>,
    <<"M","a","r","s">>,
    <<"P","h","o","b","o","s">>,
    <<"D","e","i","m","o","s">>,
    <<"J","u","p","i","t","e","r">>,
    <<"I","o">>,
    <<"E","u","r","o","p","a">>,
    <<"G","a","n","y","m","e","d","e">>,
    <<"C","a","l","l","i","s","t","o">>,
    <<"S","a","t","u","r","n">>,
    <<"T","i","t","a","n">>,
    <<"E","n","c","e","l","a","d","u","s">>,
    <<"R","h","e","a">>,
    <<"I","a","p","e","t","u","s">>,
    <<"D","i","o","n","e">>,
    <<"T","e","t","h","y","s">>,
    <<"M","i","m","a","s">>,
    <<"U","r","a","n","u","s">>,
    <<"M","i","r","a","n","d","a">>,
    <<"A","r","i","e","l">>,
    <<"U","m","b","r","i","e","l">>,
    <<"T","i","t","a","n","i","a">>,
    <<"O","b","e","r","o","n">>,
    <<"N","e","p","t","u","n","e">>,
    <<"T","r","i","t","o","n">>,
    <<"N","e","r","e","i","d">>,
    <<"P","r","o","t","e","u","s">>,
    <<"P","l","u","t","o">>,
    <<"C","h","a","r","o","n">>,
    <<"C","e","r","e","s">>,
    <<"V","e","s","t","a">>,
    <<"P","a","l","l","a","s">>,
    <<"H","y","g","i","e","a">>,
    <<"H","a","u","m","e","a">>,
    <<"M","a","k","e","m","a","k","e">>,
    <<"E","r","i","s">>,
    <<"S","e","d","n","a">>,
    <<"O","r","c","u","s">>,
    <<"Q","u","a","o","a","r">>,
    <<"G","o","n","g","g","o","n","g">>,
    <<"C","h","i","r","o","n">>,
    <<"C","h","a","r","i","k","l","o">>,
    <<"H","a","l","l","e","y">>,
    <<"E","n","c","k","e">>,
    <<"T","e","m","p","e","l"," ","1">>,
    <<"B","o","r","r","e","l","l","y">>,
    <<"6","7","P"," ","C","h","u","r","y","u","m","o","v","-","G","e","r","a","s","i","m","e","n","k","o">>,
    <<"H","a","r","t","l","e","y"," ","2">>,
    <<"S","w","i","f","t","-","T","u","t","t","l","e">>,
    <<"H","a","l","e","-","B","o","p","p">>
  >>

SOLAR_ALIAS_EXTRAS ==
  <<
    <<<<"S","u","n">>,
      <<<<"s","o","l","a","r">>>>>>,
    <<<<"M","o","o","n">>,
      <<<<"l","u","n","a">>,
        <<"l","u","n","a","r">>>>>>,
    <<<<"H","a","l","l","e","y">>,
      <<<<"h","a","l","l","e","y","c","o","m","e","t">>,
        <<"h","a","l","l","e","y","'","s">>>>>>,
    <<<<"6","7","P"," ","C","h","u","r","y","u","m","o","v","-","G","e","r","a","s","i","m","e","n","k","o">>,
      <<<<"6","7","p">>,
        <<"c","h","u","r","y","u","m","o","v">>,
        <<"g","e","r","a","s","i","m","e","n","k","o">>,
        <<"c","h","u","r","y","u","m","o","v","-","g","e","r","a","s","i","m","e","n","k","o">>>>>>,
    <<<<"T","e","m","p","e","l"," ","1">>,
      <<<<"t","e","m","p","e","l","1">>,
        <<"t","e","m","p","e","l","-","1">>,
        <<"9","p">>,
        <<"9","p","-","t","e","m","p","e","l">>,
        <<"9","p","-","t","e","m","p","e","l","-","1">>>>>>,
    <<<<"B","o","r","r","e","l","l","y">>,
      <<<<"1","9","p">>,
        <<"1","9","p","-","b","o","r","r","e","l","l","y">>>>>>,
    <<<<"H","a","r","t","l","e","y"," ","2">>,
      <<<<"h","a","r","t","l","e","y","2">>,
        <<"h","a","r","t","l","e","y","-","2">>,
        <<"1","0","3","p">>,
        <<"1","0","3","p","-","h","a","r","t","l","e","y">>,
        <<"1","0","3","p","-","h","a","r","t","l","e","y","-","2">>>>>>,
    <<<<"S","w","i","f","t","-","T","u","t","t","l","e">>,
      <<<<"s","w","i","f","t","t","u","t","t","l","e">>,
        <<"s","w","i","f","t","_","t","u","t","t","l","e">>,
        <<"1","0","9","p">>,
        <<"1","0","9","p","-","s","w","i","f","t">>,
        <<"1","0","9","p","-","s","w","i","f","t","-","t","u","t","t","l","e">>>>>>,
    <<<<"H","a","l","e","-","B","o","p","p">>,
      <<<<"h","a","l","e","b","o","p","p">>,
        <<"h","a","l","e"," ","b","o","p","p">>>>>>
  >>

test_cases ==
  <<
    <<<<"M"," ","3","1">>, <<<<"M","3","1">>>>>>,
    <<<<"M","_","3","1">>, <<<<"M","3","1">>>>>>,
    <<<<"M","_","3","1","_","s","t","r","e","t","c","h","e","d">>, <<<<"M","3","1">>>>>>,
    <<<<"M","3","1","_","s","t","r","e","t","c","h","e","d">>, <<<<"M","3","1">>>>>>,
    <<<<"M","3","1"," ","s","t","r","e","t","c","h","e","d">>, <<<<"M","3","1">>>>>>,
    <<<<"M","3","1">>, <<<<"M","3","1">>>>>>,
    <<<<"M","0","0","3","1">>, <<<<"M","3","1">>>>>>,
    <<<<"M"," ","0","0","3","1">>, <<<<"M","3","1">>>>>>,
    <<<<"N","G","C","1","2","3","4">>, <<<<"N","G","C","1","2","3","4">>>>>>,
    <<<<"N","G","C"," ","1","2","3","4">>, <<<<"N","G","C","1","2","3","4">>>>>>,
    <<<<"N","G","C","_","1","2","3","4">>, <<<<"N","G","C","1","2","3","4">>>>>>,
    <<<<"I","C","0","0","0","1">>, <<<<"I","C","1">>>>>>,
    <<<<"C","4","2">>, <<<<"C","4","2">>>>>>,
    <<<<"p","h","o","t","o","-","M","3","1","-","f","i","n","a","l">>, <<<<"M","3","1">>>>>>,
    <<<<"A","M","3","1">>, <<>>>>,
    <<<<"M","3","1","4","5">>, <<<<"M","3","1","4","5">>>>>>,
    <<<<"X","M","3","1">>, <<>>>>,
    <<<<"M","3","1","A">>, <<>>>>,
    <<<<>>, <<>>>>,
    <<<<"n","o","_","m","a","t","c","h","_","h","e","r","e">>, <<>>>>
  >>
(***************************************************************************)
(* Solar-system name variants (app/catalog.py).                            *)
(***************************************************************************)
\* d.get(key, []) of a dict written as a sequence of <<key, value>> items
DictGet(dict, key) ==
  IF \E i \in DOMAIN dict : dict[i][1] = key
  THEN dict[CHOOSE i \in DOMAIN dict :
               /\ dict[i][1] = key
               /\ \A j \in DOMAIN dict : dict[j][1] = key => j <= i][2]
  ELSE <<>>

\* s.replace(old, new) for a one-character old
RECURSIVE Replace(_, _, _)
Replace(s, old, new) ==
  IF s = <<>> THEN <<>>
  ELSE (IF s[1] = old THEN new ELSE <<s[1]>>) \o Replace(Tail(s), old, new)

\* the set of name variants of one solar-system object
_solar_aliases(name) ==
  LET base == Lower(name)
      v1 == { base,
              Replace(base, " ", <<>>),
              Replace(base, " ", <<"-">>),
              Replace(base, " ", <<"_">>),
              Replace(base, "'", <<>>) }
      v2 == v1 \cup { Replace(v, "-", <<>>) : v \in v1 }
      v3 == v2 \cup { Replace(v, "_", <<>>) : v \in v2 }
  IN v3 \cup Range(DictGet(SOLAR_ALIAS_EXTRAS, name))

\* _solar_aliases of every entry of SOLAR_OBJECTS (a pure function of the tables)
SolarAliasTable == [o \in DOMAIN SOLAR_OBJECTS |-> _solar_aliases(SOLAR_OBJECTS[o])]

\* whether alias occurs in the (lower-cased) stem
_alias_matches(lower_stem, alias) ==
  IF Len(alias) <= 2
  THEN \E i \in 1..(Len(lower_stem) - Len(alias) + 1) :
         /\ StartsAt(lower_stem, i, alias)
         /\ ~(i > 1 /\ IsLowerAlnum(lower_stem[i - 1]))
         /\ ~(i + Len(alias) <= Len(lower_stem)
              /\ IsLowerAlnum(lower_stem[i + Len(alias)]))
  ELSE Contains(lower_stem, alias)

(***************************************************************************)
(* The catalog pattern                                                     *)
(*   (NGC|IC|M|(?<!I)(?<!NG)C)[\s_-]*0*(\d{1,5})(?!\d)                     *)
(* with or without re.IGNORECASE.                                          *)
(***************************************************************************)
NoMatch == [prefix |-> <<>>, number |-> <<>>, end |-> 0]

\* the text the pattern's literals are compared with
Fold(s, ignorecase) == IF ignorecase THEN Upper(s) ELSE s

\* the alternative of (NGC|IC|M|(?<!I)(?<!NG)C) that matches at i, or <<>>
PrefixAt(s, i, ignorecase) ==
  LET f == Fold(s, ignorecase)
  IN IF StartsAt(f, i, <<"N","G","C">>) THEN SubSeq(s, i, i + 2)
     ELSE IF StartsAt(f, i, <<"I","C">>) THEN SubSeq(s, i, i + 1)
     ELSE IF StartsAt(f, i, <<"M">>) THEN SubSeq(s, i, i)
     ELSE IF /\ StartsAt(f, i, <<"C">>)
             /\ ~StartsAt(f, i - 1, <<"I">>)
             /\ ~StartsAt(f, i - 2, <<"N","G">>)
          THEN SubSeq(s, i, i)
     ELSE <<>>

\* the tail of the pattern without its separator class: 0*(\d{1,5})(?!\d)
TailSplits_NoSeparators(s, p) ==
  { t \in {0} \X (0..Len(s)) \X (1..5) :
      LET z == t[2]
          d == t[3]
          e == p + z + d
      IN /\ e - 1 <= Len(s)
         /\ \A j \in p..(p + z - 1) : s[j] = "0"
         /\ \A j \in (p + z)..(e - 1) : IsDigit(s[j])
         /\ ~(e <= Len(s) /\ IsDigit(s[e])) }

\* the tail of the pattern without its lookahead: [\s_-]*0*(\d{1,5})
TailSplits_NoLookahead(s, p) ==
  { t \in (0..Len(s)) \X (0..Len(s)) \X (1..5) :
      LET k == t[1]
          z == t[2]
          d == t[3]
          e == p + k + z + d
      IN /\ e - 1 <= Len(s)
         /\ \A j \in p..(p + k - 1) : IsSep(s[j])
         /\ \A j \in (p + k)..(p + k + z - 1) : s[j] = "0"
         /\ \A j \in (p + k + z)..(e - 1) : IsDigit(s[j]) }

\* [\s_-]*0*(\d{1,5})(?!\d) from position p: the (k, z, d) splits that match
\* (k separators, z zeros, d digits of the group)
TailSplits(s, p) ==
  { t \in (0..Len(s)) \X (0..Len(s)) \X (1..5) :
      LET k == t[1]
          z == t[2]
          d == t[3]
          e == p + k + z + d
      IN /\ e - 1 <= Len(s)
         /\ \A j \in p..(p + k - 1) : IsSep(s[j])
         /\ \A j \in (p + k)..(p + k + z - 1) : s[j] = "0"
         /\ \A j \in (p + k + z)..(e - 1) : IsDigit(s[j])
         /\ ~(e <= Len(s) /\ IsDigit(s[e])) }

\* the split the backtracking matcher finds first: every quantifier greedy,
\* the leftmost quantifier giving up last
GreedySplit(splits) ==
  CHOOSE t \in splits : \A u \in splits :
    \/ t[1] > u[1]
    \/ t[1] = u[1] /\ t[2] > u[2]
    \/ t[1] = u[1] /\ t[2] = u[2] /\ t[3] >= u[3]

\* pattern.match(s, i): the match starting exactly at i, or NoMatch
MatchAt(s, i, ignorecase) ==
  LET prefix == PrefixAt(s, i, ignorecase)
      p == i + Len(prefix)
      splits == TailSplits(s, p)
  IN IF prefix = <<>> \/ splits = {} THEN NoMatch
     ELSE LET t == GreedySplit(splits)
          IN [prefix |-> prefix,
              number |-> SubSeq(s, p + t[1] + t[2], p + t[1] + t[2] + t[3] - 1),
              end |-> p + t[1] + t[2] + t[3]]

\* pattern.finditer(s): the non-overlapping matches, scanning from position i
RECURSIVE Finditer(_, _, _)
Finditer(s, i, ignorecase) ==
  IF i > Len(s) THEN <<>>
  ELSE LET m == MatchAt(s, i, ignorecase)
       IN IF m = NoMatch THEN Finditer(s, i + 1, ignorecase)
          ELSE <<m>> \o Finditer(s, m.end, ignorecase)

(***************************************************************************)
(* _extract_object_ids of app/catalog.py.                                  *)
(***************************************************************************)
_extract_object_ids(s) ==
  LET lower_stem == Lower(s)
      hit(o) == \E alias \in SolarAliasTable[o] : _alias_matches(lower_stem, alias)
      solar == SelectSeq([o \in DOMAIN SOLAR_OBJECTS |-> o], hit)
      solar_ids == [j \in DOMAIN solar |-> Upper(SOLAR_OBJECTS[solar[j]])]
      matches == Finditer(s, 1, FALSE)
      catalog_ids == [j \in DOMAIN matches |->
                        matches[j].prefix \o IntToStr(StrToInt(matches[j].number))]
  IN Dedupe(solar_ids \o catalog_ids)

(***************************************************************************)
(* The extractor as a state machine: the stem is the input, Extract is one *)
(* call of _extract_object_ids.                                            *)
(***************************************************************************)
\* the pieces filename stems are assembled from
Pieces ==
  { <<"M">>, <<"N","G","C">>, <<"I","C">>, <<"C">>, <<"A">>, <<"m">>,
    <<"_">>, <<" ">>, <<"-">>,
    <<"0">>, <<"1">>, <<"3","1">>, <<"2","3","4","5","6">>,
    <<"I","O">> }

RECURSIVE StemsOf(_)
StemsOf(n) ==
  IF n = 0 THEN {<<>>}
  ELSE LET shorter == StemsOf(n - 1)
       IN shorter \cup { s \o p : s \in shorter, p \in Pieces }

\* the inputs of tests/test_catalog.py
TestStems == { test_cases[i][1] : i \in DOMAIN test_cases }

\* stems that name two objects, a catalog object or a solar-system object
\* each, and the stem that names M31 three times
MixedStems ==
  LET names == { <<"M","3","1">>, <<"M","_","3","1">>, <<"N","G","C","1">>,
                 <<"I","O">>, <<"m","o","o","n">>, <<"m","a","r","s">> }
  IN { a \o <<"_">> \o b : a \in names, b \in names }
       \cup { <<"M","3","1","_","M","_","3","1","_","M","0","0","3","1">> }

InitExtract ==
  /\ stem \in StemsOf(MaxPieces) \cup TestStems \cup MixedStems
  /\ ids = <<>>
  /\ pc = "input"
  /\ ExpandIdle
  /\ IndexIdle
  /\ DupIdle
  /\ RouterIdle
  /\ LoadIdle
  /\ ThumbIdle
  /\ SaveIdle
  /\ MonthIdle
  /\ ComputeIdle
  /\ NoteIdle

Extract ==
  /\ pc = "input"
  /\ ids' = _extract_object_ids(stem)
  /\ pc' = "done"
  /\ UNCHANGED <<stem, expandVars, indexVars, dupVars, routerVars, loadVars, thumbVars, saveVars, monthVars, computeVars, noteVars>>

NextExtract == Extract

SpecExtract == InitExtract /\ [][NextExtract]_vars

(***************************************************************************)
(* Catalog tokens of a stem, read off the text: a prefix, then separators, *)
(* then a maximal digit run.                                               *)
(***************************************************************************)
TokenPrefixes == { <<"N","G","C">>, <<"I","C">>, <<"M">>, <<"C">> }
TokenSeparators == {" ", "_", "-"}
TokenDigits == {"0","1","2","3","4","5","6","7","8","9"}
Letters == Range(LOWER) \cup Range(UPPER)

\* length of the maximal run of characters of class cls starting at p
RunLength(s, p, cls) ==
  CHOOSE n \in 0..Len(s) :
    /\ p + n - 1 <= Len(s)
    /\ \A j \in p..(p + n - 1) : s[j] \in cls
    /\ ~(p + n <= Len(s) /\ s[p + n] \in cls)

\* the C at position i belongs to an IC or NGC
PartOfLongerPrefix(s, i) ==
  \/ (i > 1 /\ s[i - 1] = "I")
  \/ (i > 2 /\ s[i - 2] = "N" /\ s[i - 1] = "G")

\* the occurrences of a prefix: <<position, prefix>>
PrefixOccurrences(s) ==
  { o \in (1..Len(s)) \X TokenPrefixes :
      /\ o[1] + Len(o[2]) - 1 <= Len(s)
      /\ SubSeq(s, o[1], o[1] + Len(o[2]) - 1) = o[2] }

\* the tokens: [at, prefix, digits, next] with next the position after the run
Tokens(s) ==
  { t \in { LET q == o[1] + Len(o[2])
                ds == q + RunLength(s, q, TokenSeparators)
                n == RunLength(s, ds, TokenDigits)
            IN [at |-> o[1], prefix |-> o[2],
                digits |-> SubSeq(s, ds, ds + n - 1), next |-> ds + n]
            : o \in PrefixOccurrences(s) } :
      /\ t.digits # <<>>
      /\ ~(t.prefix = <<"C">> /\ PartOfLongerPrefix(s, t.at)) }

\* a digit run without its leading zeros (the last digit always stays)
RECURSIVE StripZeros(_)
StripZeros(d) ==
  IF Len(d) > 1 /\ d[1] = "0" THEN StripZeros(Tail(d)) ELSE d

Canonical(t) == t.prefix \o StripZeros(t.digits)
Significant(t) == Len(StripZeros(t.digits))

\* ids of the form prefix + digits
IsCatalogId(id) ==
  \E p \in TokenPrefixes :
    /\ Len(id) > Len(p)
    /\ SubSeq(id, 1, Len(p)) = p
    /\ \A j \in (Len(p) + 1)..Len(id) : id[j] \in TokenDigits

IsCaldwellId(id) ==
  /\ Len(id) > 1
  /\ id[1] = "C"
  /\ \A j \in 2..Len(id) : id[j] \in TokenDigits

C2_NoIdAfterLetter ==
  (/\ pc = "done"
   /\ \A o \in PrefixOccurrences(stem) : o[1] > 1 /\ stem[o[1] - 1] \in Letters)
  => \A id \in Range(ids) : ~IsCatalogId(id)

\* C3: when the digit run of every token of the stem is immediately followed by
\* a letter, no catalog id is returned.
C3_NoIdBeforeLetter ==
  (/\ pc = "done"
   /\ Tokens(stem) # {}
   /\ \A t \in Tokens(stem) : t.next <= Len(stem) /\ stem[t.next] \in Letters)
  => \A id \in Range(ids) : ~IsCatalogId(id)

\* C4: every returned catalog id is the canonical id of a whole token, that is
\* of a prefix with the complete maximal digit run that follows it, and that
\* run has at most five significant digits; "M3145" yields exactly M3145.
C4_WholeDigitRun ==
  pc = "done" =>
    /\ \A id \in Range(ids) : IsCatalogId(id) =>
         \E t \in Tokens(stem) : Canonical(t) = id /\ Significant(t) <= 5
    /\ (stem = <<"M","3","1","4","5">> => ids = << <<"M","3","1","4","5">> >>)

\* C4 witness: "M3145" has been extracted as M3145 alone.
C4_Witness ==
  /\ pc = "done"
  /\ stem = <<"M","3","1","4","5">>
  /\ ids = << <<"M","3","1","4","5">> >>

(***************************************************************************)
(* _expand_catalog_aliases of app/catalog.py.                              *)
(***************************************************************************)
\* "if x not in seen: seen.add(x); expanded.append(x)"
AddAlways(acc, id) ==
  [seen |-> acc.seen \cup {id}, expanded |-> Append(acc.expanded, id)]

AddUnseen(acc, id) ==
  IF id \in acc.seen THEN acc
  ELSE [seen |-> acc.seen \cup {id}, expanded |-> Append(acc.expanded, id)]

\* "for alias in ...: if alias not in seen: ..."
RECURSIVE AddAliases(_, _)
AddAliases(acc, aliases) ==
  IF aliases = <<>> THEN acc
  ELSE AddAliases(AddUnseen(acc, Head(aliases)), Tail(aliases))

\* the body of the loop, Messier -> NGC/IC lookups only
ExpandOneMessierOnly(acc, object_id) ==
  IF object_id = <<>> THEN acc
  ELSE LET normalized == Upper(object_id)
       IN AddAliases(AddUnseen(acc, normalized), DictGet(MESSIER_TO_NGC, normalized))

\* the body of the loop over object_ids
ExpandOne(acc, object_id) ==
  IF object_id = <<>> THEN acc
  ELSE LET normalized == Upper(object_id)
           own == AddUnseen(acc, normalized)
           fwd == AddAliases(own, DictGet(MESSIER_TO_NGC, normalized))
       IN AddAliases(fwd, DictGet(NGC_TO_MESSIER, normalized))

RECURSIVE ExpandLoop(_, _)
ExpandLoop(acc, todo) ==
  IF todo = <<>> THEN acc
  ELSE ExpandLoop(ExpandOne(acc, Head(todo)), Tail(todo))

_expand_catalog_aliases(list) ==
  ExpandLoop([seen |-> {}, expanded |-> <<>>], list).expanded

(***************************************************************************)
(* The resolver as a state machine: Expand is one call on the input list,  *)
(* ExpandAgain one more call on the result.                                *)
(***************************************************************************)
\* ids the input lists are drawn from: both directions of two table pairs, in
\* upper and lower case, an id without alias, and the empty string
IdUniverse ==
  { Id("M", 42), Id("NGC", 1976), <<"m","4","2">>, <<"n","g","c","1","9","7","6">>,
    Id("M", 25), Id("IC", 4725), Id("M", 40), Id("M", 1), <<>> }

RECURSIVE ListsOf(_, _)
ListsOf(S, n) ==
  IF n = 0 THEN {<<>>}
  ELSE LET shorter == ListsOf(S, n - 1)
       IN shorter \cup { Append(l, x) : l \in shorter, x \in S }

\* every key of the two alias tables
TableKeys ==
  { MESSIER_TO_NGC[i][1] : i \in DOMAIN MESSIER_TO_NGC }
    \cup { NGC_TO_MESSIER[i][1] : i \in DOMAIN NGC_TO_MESSIER }

InitExpand ==
  /\ object_ids \in ListsOf(IdUniverse, MaxIds) \cup { <<k>> : k \in TableKeys }
  /\ expanded = <<>>
  /\ reexpanded = <<>>
  /\ pc = "input"
  /\ ExtractIdle
  /\ IndexIdle
  /\ DupIdle
  /\ RouterIdle
  /\ LoadIdle
  /\ ThumbIdle
  /\ SaveIdle
  /\ MonthIdle
  /\ ComputeIdle
  /\ NoteIdle

Expand ==
  /\ pc = "input"
  /\ expanded' = _expand_catalog_aliases(object_ids)
  /\ pc' = "expanded"
  /\ UNCHANGED <<object_ids, reexpanded, extractVars, indexVars, dupVars, routerVars, loadVars, thumbVars, saveVars, monthVars, computeVars, noteVars>>

ExpandAgain ==
  /\ pc = "expanded"
  /\ reexpanded' = _expand_catalog_aliases(expanded)
  /\ pc' = "reexpanded"
  /\ UNCHANGED <<object_ids, expanded, extractVars, indexVars, dupVars, routerVars, loadVars, thumbVars, saveVars, monthVars, computeVars, noteVars>>

NextExpand == Expand \/ ExpandAgain

SpecExpand == InitExpand /\ [][NextExpand]_vars

\* the table, read as pairs <<key, alias>>
Pairs(table) ==
  UNION { { <<table[i][1], a>> : a \in Range(table[i][2]) } : i \in DOMAIN table }

MessierPairs == Pairs(MESSIER_TO_NGC)
NgcPairs == Pairs(NGC_TO_MESSIER)

\* NGC_TO_MESSIER maps x back to m for every pair (m, x) of MESSIER_TO_NGC, and
\* vice versa
TablesInverse ==
  /\ \A q \in MessierPairs : <<q[2], q[1]>> \in NgcPairs
  /\ \A q \in NgcPairs : <<q[2], q[1]>> \in MessierPairs

\* the result holds the alias of every input id, in both directions
AliasesFollowed ==
  \A q \in MessierPairs :
    /\ q[1] \in Range(object_ids) => q[2] \in Range(expanded)
    /\ q[2] \in Range(object_ids) => q[1] \in Range(expanded)

\* C5 (as amended): the two tables are each other's inverse, the result holds
\* the alias of every input id in both directions, and the result holds every
\* non-empty input id upper-cased.
C5_AliasesBothWays ==
  /\ TablesInverse
  /\ pc \in {"expanded", "reexpanded"} =>
       /\ AliasesFollowed
       /\ \A id \in Range(object_ids) : id # <<>> => Upper(id) \in Range(expanded)

\* C5 witness: NGC1976 alone has been expanded to NGC1976 and M42.
C5_Witness ==
  /\ pc = "expanded"
  /\ object_ids = << Id("NGC", 1976) >>
  /\ expanded = << Id("NGC", 1976), Id("M", 42) >>

\* C5 as stated: the result holds every input id upper-cased.
C5_Original ==
  /\ TablesInverse
  /\ pc \in {"expanded", "reexpanded"} =>
       /\ AliasesFollowed
       /\ \A id \in Range(object_ids) : Upper(id) \in Range(expanded)

\* C6: expanding the result of an expansion gives the same ordered list.
C6_Idempotent ==
  pc = "reexpanded" => reexpanded = expanded

\* C6 witness: a list with lower case, an empty string and a repeated object
\* has been expanded twice.
C6_Witness ==
  /\ pc = "reexpanded"
  /\ object_ids = << <<"m","4","2">>, <<>>, Id("NGC", 1976) >>
  /\ expanded = << Id("M", 42), Id("NGC", 1976) >>
  /\ reexpanded = expanded

(***************************************************************************)
(* Files, directories and paths.                                           *)
(*                                                                         *)
(* The disk holds the directory lib with the subdirectories lib/a and      *)
(* lib/b; "alias" is a symbolic link to lib/a and "missing" does not       *)
(* exist.  A path is [root, name]: the directory as the walk spelled it    *)
(* and the file name.                                                      *)
(***************************************************************************)
RealDirs == {"lib", "lib/a", "lib/b"}
DirNames == {"lib", "alias", "missing"}

\* a directory outside lib
OtherDirs == {"ic"}

\* image_dir.exists()
DirExists(d) == d \in RealDirs \cup OtherDirs \cup {"alias"}

\* the real directory a directory path leads to
RealDir(d) == IF d = "alias" THEN "lib/a" ELSE d

\* the subdirectories os.walk descends into
SubDirs(d) == IF d = "lib" THEN {"lib/a", "lib/b"} ELSE {}

\* the path as the seen sets record it: root and name as given
ResolveNoLinks(path) == path

\* image_path.resolve()
Resolve(path) == [root |-> RealDir(path.root), name |-> path.name]

\* position of the dot that starts Path(name).suffix, or 0
SuffixDot(name) ==
  LET dots == { i \in 2..(Len(name) - 1) : name[i] = "." }
  IN IF dots = {} THEN 0 ELSE CHOOSE i \in dots : \A j \in dots : j <= i

\* Path(name).suffix and Path(name).stem
PathSuffix(name) ==
  IF SuffixDot(name) = 0 THEN <<>> ELSE SubSeq(name, SuffixDot(name), Len(name))
PathStem(name) ==
  IF SuffixDot(name) = 0 THEN name ELSE SubSeq(name, 1, SuffixDot(name) - 1)

\* the image_extensions of DEFAULT_CONFIG
image_extensions ==
  << <<".","j","p","g">>, <<".","j","p","e","g">>, <<".","p","n","g">>,
     <<".","t","i","f">>, <<".","t","i","f","f">>, <<".","w","e","b","p">>,
     <<".","b","m","p">> >>

\* the characters in the order of their code points
CodeOrder == <<" ", "'", "-", ".">> \o DIGITS \o UPPER \o <<"_">> \o LOWER
Ord(c) == IndexOf(CodeOrder, c)

\* a < b of two strings
RECURSIVE StrLess(_, _)
StrLess(a, b) ==
  IF b = <<>> THEN FALSE
  ELSE IF a = <<>> THEN TRUE
  ELSE IF a[1] = b[1] THEN StrLess(Tail(a), Tail(b))
  ELSE Ord(a[1]) < Ord(b[1])

\* the sort key without the case folding
SortKey_CaseSensitive(path) == path.name

\* key=lambda p: p.name.lower()
SortKey(path) == Lower(path.name)

\* sorted(paths, key=...): stable, so an entry goes behind its equals
RECURSIVE SortedPaths(_)
SortedPaths(paths) ==
  IF paths = <<>> THEN <<>>
  ELSE LET init == SortedPaths(SubSeq(paths, 1, Len(paths) - 1))
           x == paths[Len(paths)]
           k == Cardinality({ i \in DOMAIN init : ~StrLess(SortKey(x), SortKey(init[i])) })
       IN SubSeq(init, 1, k) \o <<x>> \o SubSeq(init, k + 1, Len(init))

\* all orders a set can be enumerated in
RECURSIVE Orders(_)
Orders(S) ==
  IF S = {} THEN {<<>>}
  ELSE UNION { { <<x>> \o o : o \in Orders(S \ {x}) } : x \in S }

\* the file names used on disk: two names of M42 whose order depends on the
\* case folding, an NGC name of the same object, a name without id and a file
\* that is no image
FileNames ==
  { <<"a","_","M","4","2",".","j","p","g">>,
    <<"B","_","m","4","2",".","J","P","G">>,
    <<"N","G","C","1","9","7","6",".","p","n","g">>,
    <<"s","k","y",".","j","p","g">>,
    <<"M","4","2",".","t","x","t">> }

\* the file names of the catalog directories a load indexes
LoadFileNames ==
  { <<"a","_","M","4","2",".","j","p","g">>,
    <<"N","G","C","1","9","7","6",".","p","n","g">>,
    <<"M","2","5",".","j","p","g">>,
    <<"I","C","4","7","2","5",".","j","p","g">> }

\* _expand_catalog_aliases(_extract_object_ids(stem)) of each file name
MatchesOf ==
  [ name \in FileNames \cup LoadFileNames |->
      _expand_catalog_aliases(_extract_object_ids(Upper(PathStem(name)))) ]

(***************************************************************************)
(* _build_image_index of app/catalog.py.                                   *)
(***************************************************************************)
\* the files of one real directory as the walk of root yields them
Listing(root) ==
  { [root |-> root, name |-> f.name] : f \in { g \in files : g.dir = RealDir(root) } }

\* the orders os.walk(image_dir) can yield the files in: a directory's own
\* files first, then its subdirectories one after the other
WalkOrders(image_dir) ==
  IF SubDirs(image_dir) = {}
  THEN Orders(Listing(image_dir))
  ELSE { top \o sub[1] \o sub[2] :
           top \in Orders(Listing(image_dir)),
           sub \in UNION { Orders(Listing(ds[1])) \X Orders(Listing(ds[2]))
                           : ds \in Orders(SubDirs(image_dir)) } }

\* "seen.setdefault(id, set()); if resolved in seen[id]: continue; ..."
IndexId(acc, object_id, image_path) ==
  LET resolved == Resolve(image_path)
      seen_id == IF object_id \in DOMAIN acc.seen THEN acc.seen[object_id] ELSE {}
      paths == IF object_id \in DOMAIN acc.index THEN acc.index[object_id] ELSE <<>>
  IN IF resolved \in seen_id
     THEN [index |-> acc.index,
           seen |-> [i \in DOMAIN acc.seen \cup {object_id} |->
                       IF i = object_id THEN seen_id ELSE acc.seen[i]]]
     ELSE [index |-> [i \in DOMAIN acc.index \cup {object_id} |->
                        IF i = object_id THEN Append(paths, image_path)
                        ELSE acc.index[i]],
           seen |-> [i \in DOMAIN acc.seen \cup {object_id} |->
                       IF i = object_id THEN seen_id \cup {resolved}
                       ELSE acc.seen[i]]]

RECURSIVE IndexIds(_, _, _)
IndexIds(acc, matches, image_path) ==
  IF matches = <<>> THEN acc
  ELSE IndexIds(IndexId(acc, Head(matches), image_path), Tail(matches), image_path)

\* the body of "for filename in files"
IndexFile(acc, image_path) ==
  IF Lower(PathSuffix(image_path.name)) \notin { Lower(e) : e \in Range(image_extensions) }
  THEN acc
  ELSE IndexIds(acc, MatchesOf[image_path.name], image_path)

RECURSIVE IndexFiles(_, _)
IndexFiles(acc, order) ==
  IF order = <<>> THEN acc
  ELSE IndexFiles(IndexFile(acc, Head(order)), Tail(order))

(***************************************************************************)
(* The indexer as a state machine: WalkDir is one iteration of the loop    *)
(* over image_dirs, SortIndex the sort that ends the function.             *)
(***************************************************************************)
\* the sets of at most n elements of S
RECURSIVE SubsetsUpTo(_, _)
SubsetsUpTo(S, n) ==
  IF n = 0 THEN {{}}
  ELSE LET smaller == SubsetsUpTo(S, n - 1)
       IN smaller \cup { T \cup {x} : T \in smaller, x \in S }

InitIndex ==
  /\ files \in SubsetsUpTo([dir : RealDirs, name : FileNames], MaxFiles)
  /\ image_dirs \in ListsOf(DirNames, MaxDirs)
  /\ walked = 0
  /\ index = <<>>
  /\ seen = <<>>
  /\ pc = "walk"
  /\ ExtractIdle
  /\ ExpandIdle
  /\ DupIdle
  /\ RouterIdle
  /\ LoadIdle
  /\ ThumbIdle
  /\ SaveIdle
  /\ MonthIdle
  /\ ComputeIdle
  /\ NoteIdle

WalkDir ==
  /\ pc = "walk"
  /\ walked < Len(image_dirs)
  /\ LET image_dir == image_dirs[walked + 1]
     IN IF ~DirExists(image_dir)
        THEN UNCHANGED <<index, seen>>
        ELSE \E order \in WalkOrders(image_dir) :
               LET acc == IndexFiles([index |-> index, seen |-> seen], order)
               IN /\ index' = acc.index
                  /\ seen' = acc.seen
  /\ walked' = walked + 1
  /\ UNCHANGED <<pc, files, image_dirs, extractVars, expandVars, dupVars, routerVars, loadVars, thumbVars, saveVars, monthVars, computeVars, noteVars>>

SortIndex ==
  /\ pc = "walk"
  /\ walked = Len(image_dirs)
  /\ index' = [object_id \in DOMAIN index |-> SortedPaths(index[object_id])]
  /\ pc' = "done"
  /\ UNCHANGED <<files, image_dirs, walked, seen, extractVars, expandVars, dupVars, routerVars, loadVars, thumbVars, saveVars, monthVars, computeVars, noteVars>>

NextIndex == WalkDir \/ SortIndex

SpecIndex == InitIndex /\ [][NextIndex]_vars

\* the file on disk a path leads to
FileOnDisk(path) ==
  [dir |-> IF path.root = "alias" THEN "lib/a" ELSE path.root, name |-> path.name]

\* C7: no two entries of one id's list in the returned index resolve to the
\* same absolute path, that is lead to the same file on disk.
C7_NoPathTwice ==
  pc = "done" =>
    \A object_id \in DOMAIN index :
      \A i, j \in DOMAIN index[object_id] :
        i # j => FileOnDisk(index[object_id][i]) # FileOnDisk(index[object_id][j])

\* C7 witness: lib/a was walked as a subdirectory of lib and again through the
\* link, and the one file there is listed once.
C7_Witness ==
  /\ pc = "done"
  /\ image_dirs = <<"lib", "alias">>
  /\ files = { [dir |-> "lib/a", name |-> <<"a","_","M","4","2",".","j","p","g">>] }
  /\ Len(index[Id("M", 42)]) = 1

\* C8: every list of the returned index is in non-decreasing order of the
\* lower-cased file name.
C8_SortedByFolded ==
  pc = "done" =>
    \A object_id \in DOMAIN index :
      \A i, j \in DOMAIN index[object_id] :
        i < j => ~StrLess(Lower(index[object_id][j].name), Lower(index[object_id][i].name))

\* C8 witness: a_M42.jpg precedes B_m42.JPG in M42's list, against the order
\* of the code points of their first letters.
C8_Witness ==
  /\ pc = "done"
  /\ Id("M", 42) \in DOMAIN index
  /\ Len(index[Id("M", 42)]) = 2
  /\ index[Id("M", 42)][1].name = <<"a","_","M","4","2",".","j","p","g">>
  /\ index[Id("M", 42)][2].name = <<"B","_","m","4","2",".","J","P","G">>

(***************************************************************************)
(* scripts/find_duplicate_images_by_catalog.py.                            *)
(***************************************************************************)
Messier == <<"M","e","s","s","i","e","r">>
NGC == <<"N","G","C">>
IC == <<"I","C">>
Caldwell == <<"C","a","l","d","w","e","l","l">>
SolarSystem == <<"S","o","l","a","r"," ","s","y","s","t","e","m">>

CATALOG_PREFIX ==
  << <<Messier, <<"M">>>>, <<NGC, <<"N","G","C">>>>,
     <<IC, <<"I","C">>>>, <<Caldwell, <<"C">>>> >>

\* sorted(S) of a set of strings
RECURSIVE SortedSet(_)
SortedSet(S) ==
  IF S = {} THEN <<>>
  ELSE LET least == CHOOSE x \in S : \A y \in S : ~StrLess(y, x)
       IN <<least>> \o SortedSet(S \ {least})

\* _extract_object_ids of the duplicate detector: re.IGNORECASE, sorted(set(ids))
Dup_extract_object_ids(name) ==
  LET matches == Finditer(name, 1, TRUE)
  IN SortedSet({ Upper(matches[j].prefix) \o IntToStr(StrToInt(matches[j].number))
                 : j \in DOMAIN matches })

\* _catalog_dirs: the catalogs with a known name and some image_dirs, in order
_catalog_dirs(cfg) ==
  SelectSeq(cfg.catalogs, LAMBDA c : /\ \E i \in DOMAIN CATALOG_PREFIX : CATALOG_PREFIX[i][1] = c.name
                            /\ c.image_dirs # <<>>)

\* whether _iter_files yields the file: its suffix is an allowed extension
HasExtension(path) ==
  Lower(PathSuffix(path.name)) \in { Lower(e) : e \in Range(image_extensions) }

\* the orders _iter_files(paths, extensions) can yield the paths in
RECURSIVE IterOrders(_)
IterOrders(paths) ==
  IF paths = <<>> THEN {<<>>}
  ELSE LET first == IF DirExists(Head(paths))
                    THEN { SelectSeq(o, HasExtension) : o \in WalkOrders(Head(paths)) }
                    ELSE {<<>>}
       IN { a \o b : a \in first, b \in IterOrders(Tail(paths)) }

\* _hash_file(path): the digest of the file the path leads to
_hash_file(path) == sha256[[dir |-> RealDir(path.root), name |-> path.name]]

\* hashes.setdefault(digest, []).append(path), hashes a list of <<digest, paths>>
RECURSIVE HashAll(_, _)
HashAll(hashes, order) ==
  IF order = <<>> THEN hashes
  ELSE LET digest == _hash_file(Head(order))
           next == IF \E i \in DOMAIN hashes : hashes[i][1] = digest
                   THEN [i \in DOMAIN hashes |->
                           IF hashes[i][1] = digest
                           THEN <<digest, Append(hashes[i][2], Head(order))>>
                           ELSE hashes[i]]
                   ELSE Append(hashes, <<digest, <<Head(order)>>>>)
       IN HashAll(next, Tail(order))

\* the intersection of a non-empty list of sets
Intersection(id_sets) ==
  { x \in id_sets[1] : \A i \in DOMAIN id_sets : x \in id_sets[i] }

\* the ids every file or some file of the group carries
CommonIds_Union(file_items) ==
  SortedSet(UNION { Range(file_items[i].ids) : i \in DOMAIN file_items })

\* "if all(id_sets): common_ids = sorted(set.intersection(*id_sets))"
CommonIds(file_items) ==
  LET id_sets == [i \in DOMAIN file_items |-> Range(file_items[i].ids)]
  IN IF \A i \in DOMAIN id_sets : id_sets[i] # {}
     THEN SortedSet(Intersection(id_sets))
     ELSE <<>>

\* the digests and the file names on disk
Hashes == { <<"1","f">>, <<"a","0">> }

\* names with the ids M42, M42 and NGC1976, NGC1976, and none
DupFileNames ==
  { <<"M","4","2",".","j","p","g">>,
    <<"m","4","2","_","N","G","C","1","9","7","6",".","j","p","g">>,
    <<"N","G","C"," ","1","9","7","6",".","p","n","g">>,
    <<"s","k","y",".","j","p","g">> }

\* _extract_object_ids(path.stem) of each file name
DupIdsOf ==
  [ name \in DupFileNames |-> Dup_extract_object_ids(PathStem(name)) ]

\* the groups of one catalog: "for digest, file_paths in hashes.items()"
RECURSIVE GroupsOf(_, _)
GroupsOf(catalog_name, hashes) ==
  IF hashes = <<>> THEN <<>>
  ELSE LET digest == Head(hashes)[1]
           file_paths == Head(hashes)[2]
           file_items == [i \in DOMAIN file_paths |->
                            [path |-> file_paths[i],
                             ids |-> DupIdsOf[file_paths[i].name]]]
           common_ids == CommonIds(file_items)
           rest == GroupsOf(catalog_name, Tail(hashes))
       IN IF Len(file_paths) <= 1 \/ common_ids = <<>> THEN rest
          ELSE <<[catalog |-> catalog_name, hash |-> digest,
                  files |-> file_items, common_ids |-> common_ids]>> \o rest

\* the sort key (catalog, -len(files), hash): g sorts before h
GroupLess(g, h) ==
  \/ StrLess(g.catalog, h.catalog)
  \/ /\ g.catalog = h.catalog
     /\ \/ Len(g.files) > Len(h.files)
        \/ Len(g.files) = Len(h.files) /\ StrLess(g.hash, h.hash)

\* the groups left in the order in which they were collected
SortedGroups_Not(gs) == gs

\* sorted(groups, key=...)
RECURSIVE SortedGroups(_)
SortedGroups(gs) ==
  IF gs = <<>> THEN <<>>
  ELSE LET init == SortedGroups(SubSeq(gs, 1, Len(gs) - 1))
           x == gs[Len(gs)]
           k == Cardinality({ i \in DOMAIN init : ~GroupLess(x, init[i]) })
       IN SubSeq(init, 1, k) \o <<x>> \o SubSeq(init, k + 1, Len(init))

\* the Optional[Path] None
NoPath == [root |-> "", name |-> <<>>]

\* a line of the text report: what it is about and the values it shows
ReportLine(label, number, text, path, ids_) ==
  [label |-> label, number |-> number, text |-> text, path |-> path, ids |-> ids_]

\* the lines of one group: catalog, digest, common ids, one line per file and
\* an empty line
GroupLines(group) ==
  << ReportLine("Catalog: ", 0, group.catalog, NoPath, <<>>),
     ReportLine("SHA-256: ", 0, group.hash, NoPath, <<>>),
     ReportLine("Common IDs: ", 0, <<>>, NoPath, group.common_ids) >>
    \o [i \in DOMAIN group.files |->
          ReportLine("  - ", 0, <<>>, group.files[i].path, group.files[i].ids)]
    \o << ReportLine("", 0, <<>>, NoPath, <<>>) >>

RECURSIVE AllGroupLines(_)
AllGroupLines(gs) ==
  IF gs = <<>> THEN <<>> ELSE GroupLines(Head(gs)) \o AllGroupLines(Tail(gs))

RECURSIVE TotalFiles(_)
TotalFiles(gs) ==
  IF gs = <<>> THEN 0 ELSE Len(Head(gs).files) + TotalFiles(Tail(gs))

\* _format_report(groups): the two totals, an empty line, the lines of the
\* groups in the order of the list, the trailing empty lines stripped
_format_report(gs) ==
  LET lines == << ReportLine("Duplicate groups: ", Len(gs), <<>>, NoPath, <<>>),
                  ReportLine("Duplicate files: ", TotalFiles(gs), <<>>, NoPath, <<>>),
                  ReportLine("", 0, <<>>, NoPath, <<>>) >>
                 \o AllGroupLines(gs)
  IN SubSeq(lines, 1, Len(lines) - 1)

(***************************************************************************)
(* The duplicate detector as a state machine: ScanCatalog is one iteration *)
(* of main's loop over the catalogs, Report the sort and the output.       *)
(***************************************************************************)
InitDup ==
  /\ files \in SubsetsUpTo([dir : {"lib/a", "lib/b"}, name : DupFileNames], MaxFiles)
  /\ sha256 \in [files -> Hashes]
  /\ \E messier_dirs \in ListsOf(DirNames, MaxDirs) :
       config = [catalogs |-> << [name |-> Messier, image_dirs |-> messier_dirs],
                                 [name |-> NGC, image_dirs |-> <<"lib/b">>],
                                 [name |-> SolarSystem, image_dirs |-> <<"lib">>] >>,
                 master_image_dir |-> ""]
  /\ scanned = 0
  /\ groups = <<>>
  /\ report = <<>>
  /\ payload = <<>>
  /\ pc = "scan"
  /\ ExtractIdle
  /\ ExpandIdle
  /\ image_dirs = <<>> /\ walked = 0 /\ index = <<>> /\ seen = <<>>
  /\ RouterIdle
  /\ LoadIdle
  /\ ThumbIdle
  /\ SaveIdle
  /\ MonthIdle
  /\ ComputeIdle
  /\ NoteIdle

ScanCatalog ==
  /\ pc = "scan"
  /\ scanned < Len(_catalog_dirs(config))
  /\ LET catalog == _catalog_dirs(config)[scanned + 1]
     IN \E order \in IterOrders(catalog.image_dirs) :
          groups' = groups \o GroupsOf(catalog.name, HashAll(<<>>, order))
  /\ scanned' = scanned + 1
  /\ UNCHANGED <<pc, sha256, config, report, payload, extractVars, expandVars, indexVars, routerVars, loadVars, thumbVars, saveVars, monthVars, computeVars, noteVars>>

Report ==
  /\ pc = "scan"
  /\ scanned = Len(_catalog_dirs(config))
  /\ groups' = SortedGroups(groups)
  /\ report' = _format_report(SortedGroups(groups))
  /\ payload' = [extensions |-> image_extensions, groups |-> SortedGroups(groups)]
  /\ pc' = "done"
  /\ UNCHANGED <<sha256, config, scanned, extractVars, expandVars, indexVars, routerVars, loadVars, thumbVars, saveVars, monthVars, computeVars, noteVars>>

NextDup == ScanCatalog \/ Report

SpecDup == InitDup /\ [][NextDup]_vars

\* the files on disk under the directories of a catalog
FilesUnder(roots) ==
  { f \in files : \E i \in DOMAIN roots :
      \/ roots[i] = "lib"
      \/ roots[i] = "alias" /\ f.dir = "lib/a"
      \/ roots[i] = f.dir }

\* the ids in a file's name, as a set
NameIds(f) == Range(DupIdsOf[f.name])

\* the catalogs the detector scans
ScannedCatalogs ==
  { c \in Range(config.catalogs) : c.name \in {Messier, NGC, IC, Caldwell} /\ c.image_dirs # <<>> }

\* C9: a set of two or more files of one catalog that share a digest is
\* reported if and only if the intersection of the id sets of their names is
\* not empty, and common_ids is that intersection.
C9_GroupIffCommonIds ==
  pc = "done" =>
    \A c \in ScannedCatalogs : \A h \in Hashes :
      LET same == { f \in FilesUnder(c.image_dirs) : sha256[f] = h }
          common == { x \in UNION { NameIds(f) : f \in same } :
                        \A f \in same : x \in NameIds(f) }
          reported == { i \in DOMAIN groups :
                          groups[i].catalog = c.name /\ groups[i].hash = h }
      IN Cardinality(same) >= 2 =>
           /\ (reported # {}) <=> (common # {})
           /\ \A i \in reported : Range(groups[i].common_ids) = common

\* C9 witness: two identical files with the overlapping names M42 and
\* m42_NGC1976 are reported with common id M42, and nothing else is.
C9_Witness ==
  /\ pc = "done"
  /\ Len(groups) = 1
  /\ groups[1].catalog = Messier
  /\ groups[1].common_ids = << Id("M", 42) >>
  /\ Len(groups[1].files) = 2
  /\ Cardinality(files) = 2

(***************************************************************************)
(* scripts/sort_master_images.py.                                          *)
(*                                                                         *)
(* The intake directory is "intake" with the subdirectory "intake/m"; the  *)
(* catalog directories are "m", "x", "n", "i" and "c".                     *)
(***************************************************************************)
\* the router's extractor without re.IGNORECASE
Sort_extract_object_ids_CaseSensitive(s) ==
  LET matches == Finditer(s, 1, FALSE)
  IN [j \in DOMAIN matches |->
        Upper(matches[j].prefix) \o IntToStr(StrToInt(matches[j].number))]

\* _extract_object_ids of the master router: re.IGNORECASE, every match in order
Sort_extract_object_ids(s) ==
  LET matches == Finditer(s, 1, TRUE)
  IN [j \in DOMAIN matches |->
        Upper(matches[j].prefix) \o IntToStr(StrToInt(matches[j].number))]

\* the prefix of the first id of the list
_pick_catalog_FirstId(ids_) ==
  LET priority == << <<"M">>, <<"N","G","C">>, <<"I","C">>, <<"C">> >>
      hits == { k \in DOMAIN priority : StartsAt(ids_[1], 1, priority[k]) }
  IN IF ids_ = <<>> \/ hits = {} THEN <<>>
     ELSE priority[CHOOSE k \in hits : \A l \in hits : k <= l]

\* _pick_catalog: the first prefix of the priority list some id starts with
_pick_catalog(ids_) ==
  LET priority == << <<"M">>, <<"N","G","C">>, <<"I","C">>, <<"C">> >>
      hits == { k \in DOMAIN priority :
                  \E j \in DOMAIN ids_ : StartsAt(ids_[j], 1, priority[k]) }
  IN IF hits = {} THEN <<>>
     ELSE priority[CHOOSE k \in hits : \A l \in hits : k <= l]

\* prefix_to_catalog.get(prefix)
prefix_to_catalog(prefix) ==
  CATALOG_PREFIX[CHOOSE i \in DOMAIN CATALOG_PREFIX : CATALOG_PREFIX[i][2] = prefix][1]

\* _catalog_target_dirs(config).get(name): the first image_dir, "" for None
_catalog_target_dirs(cfg, name) ==
  LET kept == SelectSeq(cfg.catalogs,
                LAMBDA c : /\ \E i \in DOMAIN CATALOG_PREFIX : CATALOG_PREFIX[i][1] = c.name
                           /\ c.image_dirs # <<>>
                           /\ c.name = name)
  IN IF kept = <<>> THEN "" ELSE kept[Len(kept)].image_dirs[1]

\* the subdirectories of a directory that exist
RouterSubDirs(d) == IF d = "intake" THEN {"intake/m"} \cap dirs ELSE {}

\* the files of directory d that _iter_files yields, as paths
RouterListing(d) ==
  { path \in { [root |-> d, name |-> f.name] : f \in { g \in files : g.dir = d } } :
      HasExtension(path) }

\* the target name without the search for a free one
FreeName_Taken(target_dir, name, target_name, counter) == target_name

\* "while target_path.exists(): target_path = target_dir / f'{stem}-{counter}{suffix}'"
RECURSIVE FreeName(_, _, _, _)
FreeName(target_dir, name, target_name, counter) ==
  IF [dir |-> target_dir, name |-> target_name] \notin files THEN target_name
  ELSE FreeName(target_dir, name,
                PathStem(name) \o <<"-">> \o IntToStr(counter) \o PathSuffix(name),
                counter + 1)

\* the file names of the intake and of the catalog directories
RouterFileNames ==
  { <<"M","4","2","_","N","G","C","1","9","7","6",".","t","i","f">>,
    <<"N","G","C","1","9","7","6","_","M","4","2",".","t","i","f">>,
    <<"M","4","2","_","N","G","C","1","9","7","6","-","1",".","t","i","f">>,
    <<"i","c","5"," ","c","9",".","j","p","g">>,
    <<"C","9",".","j","p","g">>,
    <<"s","k","y",".","j","p","g">>,
    <<"M","4","2",".","t","x","t">> }

\* _extract_object_ids(path.stem.upper()) of each file name
RouterIdsOf ==
  [ name \in RouterFileNames |-> Sort_extract_object_ids(Upper(PathStem(name))) ]

\* object_ids = _extract_object_ids(path.stem.upper())
RouterIds(name) ==
  IF name \in RouterFileNames THEN RouterIdsOf[name]
  ELSE Sort_extract_object_ids(Upper(PathStem(name)))

\* "continue" without the count
Skip_Uncounted == [files |-> files, sha256 |-> sha256, dirs |-> dirs,
                   moved |-> moved, skipped |-> skipped]

\* "skipped += 1; continue"
Skip == [files |-> files, sha256 |-> sha256, dirs |-> dirs,
         moved |-> moved, skipped |-> skipped + 1]

\* "skipped += 1" after target_dir.mkdir(parents=True, exist_ok=True)
SkipMade(target_dir) ==
  [files |-> files, sha256 |-> sha256, dirs |-> dirs \cup {target_dir},
   moved |-> moved, skipped |-> skipped + 1]

\* "shutil.move(str(path), str(target_path)); moved += 1"
Move(src, dst) ==
  [files |-> (files \ {src}) \cup {dst},
   sha256 |-> [f \in (files \ {src}) \cup {dst} |->
                 IF f = dst THEN sha256[src] ELSE sha256[f]],
   dirs |-> dirs \cup {dst.dir},
   moved |-> moved + 1,
   skipped |-> skipped]

\* the loop body from "target_dir = catalog_dirs.get(catalog_name)" on
RouteTo(path, target_dir) ==
  IF target_dir = "" THEN Skip
  ELSE IF path.root = target_dir \/ target_dir \in readonly THEN SkipMade(target_dir)
  ELSE Move([dir |-> path.root, name |-> path.name],
            [dir |-> target_dir,
             name |-> FreeName(target_dir, path.name, path.name, 1)])

\* the loop body from "if not catalog_prefix" on
RouteBy(path, catalog_prefix) ==
  IF catalog_prefix = <<>> THEN Skip
  ELSE RouteTo(path, _catalog_target_dirs(config, prefix_to_catalog(catalog_prefix)))

\* the body of "for path in _iter_files(master_root, extensions)": the disk and
\* the counters after it
Route(path) == RouteBy(path, _pick_catalog(RouterIds(path.name)))

(***************************************************************************)
(* The master router as a state machine: StartRun is main up to the first  *)
(* directory listing of os.walk, RouteFile one iteration of the loop,      *)
(* ListDir the listing of the next subdirectory, Finish the final print.   *)
(***************************************************************************)
IntakeDirs == {"intake", "intake/m"}
CatalogDirs == {"m", "x", "n", "i", "c"}

\* the files that may be under the intake directory when the run starts
RouterCandidates ==
  [dir : IntakeDirs, name : RouterFileNames \ {<<"M","4","2","_","N","G","C","1","9","7","6","-","1",".","t","i","f">>}]

\* the files that may be in the catalog directory "m" when the run starts
RouterPresent ==
  [dir : {"m"}, name : {<<"M","4","2","_","N","G","C","1","9","7","6",".","t","i","f">>,
                        <<"M","4","2","_","N","G","C","1","9","7","6","-","1",".","t","i","f">>}]

\* the configurations: [master, messier, ngc, readonly]
RouterConfigs ==
  [master : {"intake"}, messier : {<<>>, <<"m", "x">>, <<"intake/m">>},
   ngc : {<<>>, <<"n">>}, readonly : {{}}]
    \cup [master : {"intake"}, messier : {<<"m", "x">>}, ngc : {<<"n">>}, readonly : {{"m"}}]
    \cup [master : {"", "missing"}, messier : {<<"m", "x">>}, ngc : {<<"n">>}, readonly : {{}}]

InitRouter ==
  /\ \E intake \in SubsetsUpTo(RouterCandidates, MaxFiles) :
       \E present \in SUBSET RouterPresent : files = intake \cup present
  /\ sha256 = [f \in files |-> <<f.dir, f.name>>]
  /\ \E k \in RouterConfigs :
       /\ config = [catalogs |-> << [name |-> Messier, image_dirs |-> k.messier],
                                    [name |-> NGC, image_dirs |-> k.ngc],
                                    [name |-> IC, image_dirs |-> <<"i">>],
                                    [name |-> Caldwell, image_dirs |-> <<"c">>],
                                    [name |-> SolarSystem, image_dirs |-> <<"x">>] >>,
                    master_image_dir |-> k.master]
       /\ readonly = k.readonly
  /\ \E sub \in SUBSET {"intake/m"} :
       /\ dirs = {"intake"} \cup CatalogDirs \cup sub
       /\ \A f \in files : f.dir \in dirs
  /\ listed = {}
  /\ pending = {}
  /\ moved = 0
  /\ skipped = 0
  /\ pc = "start"
  /\ ExtractIdle
  /\ ExpandIdle
  /\ image_dirs = <<>> /\ walked = 0 /\ index = <<>> /\ seen = <<>>
  /\ scanned = 0 /\ groups = <<>> /\ report = <<>> /\ payload = <<>>
  /\ LoadIdle
  /\ ThumbIdle
  /\ SaveIdle
  /\ MonthIdle
  /\ ComputeIdle
  /\ NoteIdle

StartRun ==
  /\ pc = "start"
  /\ IF config.master_image_dir = "" \/ config.master_image_dir \notin dirs
     THEN /\ pc' = "done"
          /\ UNCHANGED <<listed, pending>>
     ELSE /\ pc' = "walk"
          /\ listed' = RouterListing(config.master_image_dir)
          /\ pending' = RouterSubDirs(config.master_image_dir)
  /\ UNCHANGED <<files, sha256, config, dirs, readonly, moved, skipped>>
  /\ UNCHANGED <<extractVars, expandVars, image_dirs, walked, index, seen, scanned, groups, report, payload,
               loadVars, thumbVars, saveVars, monthVars, computeVars, noteVars>>

\* the disk and the counters become those after the loop body
Routed(after) ==
  /\ files' = after.files
  /\ sha256' = after.sha256
  /\ dirs' = after.dirs
  /\ moved' = after.moved
  /\ skipped' = after.skipped

RouteFile ==
  /\ pc = "walk"
  /\ \E path \in listed :
       /\ Routed(Route(path))
       /\ listed' = listed \ {path}
  /\ UNCHANGED <<pc, config, readonly, pending>>
  /\ UNCHANGED <<extractVars, expandVars, image_dirs, walked, index, seen, scanned, groups, report, payload,
               loadVars, thumbVars, saveVars, monthVars, computeVars, noteVars>>

ListDir ==
  /\ pc = "walk"
  /\ listed = {}
  /\ \E d \in pending :
       /\ listed' = RouterListing(d)
       /\ pending' = (pending \ {d}) \cup RouterSubDirs(d)
  /\ UNCHANGED <<pc, files, sha256, config, dirs, readonly, moved, skipped>>
  /\ UNCHANGED <<extractVars, expandVars, image_dirs, walked, index, seen, scanned, groups, report, payload,
               loadVars, thumbVars, saveVars, monthVars, computeVars, noteVars>>

Finish ==
  /\ pc = "walk"
  /\ listed = {}
  /\ pending = {}
  /\ pc' = "done"
  /\ UNCHANGED <<files, sha256, config, dirs, readonly, listed, pending, moved, skipped>>
  /\ UNCHANGED <<extractVars, expandVars, image_dirs, walked, index, seen, scanned, groups, report, payload,
               loadVars, thumbVars, saveVars, monthVars, computeVars, noteVars>>

NextRouter == StartRun \/ RouteFile \/ ListDir \/ Finish

SpecRouter == InitRouter /\ [][NextRouter]_vars

\* the catalogs in the order of their priority, with their prefixes
PriorityOrder ==
  << <<Messier, <<"M">>>>, <<NGC, <<"N","G","C">>>>,
     <<IC, <<"I","C">>>>, <<Caldwell, <<"C">>>> >>

\* the ranks of the catalogs a file name carries an id of
RanksOf ==
  [ name \in RouterFileNames |->
      { k \in DOMAIN PriorityOrder :
          \E t \in Tokens(Upper(PathStem(name))) :
            t.prefix = PriorityOrder[k][2] /\ Significant(t) <= 5 } ]
RanksIn(name) == RanksOf[name]

\* the first configured image directory of a catalog, "" when it has none
FirstDirOf(catalog_name) ==
  LET cs == { c \in Range(config.catalogs) : c.name = catalog_name /\ c.image_dirs # <<>> }
  IN IF cs = {} THEN "" ELSE (CHOOSE c \in cs : TRUE).image_dirs[1]

\* the first configured image directory of the highest catalog of a name
DestinationOf(name) ==
  LET ranks == RanksIn(name)
  IN FirstDirOf(PriorityOrder[CHOOSE k \in ranks : \A l \in ranks : k <= l][1])

\* the intake files of the run that name a catalog object: the files on disk
\* that were under the intake directory when the run started
RoutedFiles ==
  { f \in files :
      /\ config.master_image_dir = "intake"
      /\ sha256[f][1] \in IntakeDirs
      /\ Lower(PathSuffix(sha256[f][2])) \in
           { <<".","j","p","g">>, <<".","j","p","e","g">>, <<".","p","n","g">>,
             <<".","t","i","f">>, <<".","t","i","f","f">>, <<".","w","e","b","p">>,
             <<".","b","m","p">> }
      /\ RanksIn(sha256[f][2]) # {} }

\* no file is copied: every file that was on disk is on disk once
OneCopy == \A f, g \in files : sha256[f] = sha256[g] => f = g

\* C10 (as amended): every intake file that names a catalog object ends in the
\* first configured image directory of the highest catalog of its name when
\* that catalog has one, the file is not already there and the directory takes
\* the file; otherwise it stays where it was. No file is ever copied.
C10_RoutedByPriority ==
  pc = "done" =>
    /\ OneCopy
    /\ \A f \in RoutedFiles :
         LET from == sha256[f][1]
             to == DestinationOf(sha256[f][2])
         IN IF to # "" /\ to # from /\ to \notin readonly
            THEN f.dir = to
            ELSE f.dir = from /\ f.name = sha256[f][2]

\* C10 witness: M42_NGC1976.tif and NGC1976_M42.tif from the intake are both
\* in the first Messier directory.
C10_Witness ==
  /\ pc = "done"
  /\ \E f, g \in files :
       /\ f.dir = "m" /\ g.dir = "m"
       /\ sha256[f] = <<"intake", <<"M","4","2","_","N","G","C","1","9","7","6",".","t","i","f">>>>
       /\ sha256[g] = <<"intake", <<"N","G","C","1","9","7","6","_","M","4","2",".","t","i","f">>>>

\* C10 as stated: every intake file that names a catalog object ends in the
\* first configured image directory of the highest catalog of its name.
C10_Original ==
  pc = "done" =>
    /\ OneCopy
    /\ \A f \in RoutedFiles : f.dir = DestinationOf(sha256[f][2])

\* <stem>-k<ext> of a file name
Numbered(name, k) == PathStem(name) \o <<"-">> \o IntToStr(k) \o PathSuffix(name)

\* stored is the name itself when that is free among the files before, else
\* <stem>-k<ext> for the smallest k >= 1 that is free
SmallestFree(name, stored, dir, before) ==
  LET taken(n) == [dir |-> dir, name |-> n] \in before
  IN \/ stored = name /\ ~taken(name)
     \/ \E k \in 1..(Cardinality(before) + 1) :
          /\ stored = Numbered(name, k)
          /\ taken(name)
          /\ \A j \in 1..(k - 1) : taken(Numbered(name, j))
          /\ ~taken(stored)

\* a step that changes the disk moves one file to a name that was free, the
\* smallest free one, and leaves every other file and every content alone
MoveKeepsOthers ==
  files' # files =>
    \E src \in files : \E dst \in files' :
      /\ dst \notin files
      /\ files' = (files \ {src}) \cup {dst}
      /\ sha256'[dst] = sha256[src]
      /\ \A f \in files \ {src} : sha256'[f] = sha256[f]
      /\ SmallestFree(src.name, dst.name, dst.dir, files)

\* the files that were outside the intake tree when the run started are where
\* they were
OutsideIntakeKept ==
  \A d \in CatalogDirs : \A n \in RouterFileNames :
    (\E f \in files : sha256[f] = <<d, n>>) =>
      /\ [dir |-> d, name |-> n] \in files
      /\ sha256[[dir |-> d, name |-> n]] = <<d, n>>

\* C11 (as amended): the router never overwrites. Every step that changes the
\* disk moves one file to a name that was free in the target directory, the
\* name itself or <stem>-k<ext> for the smallest free k >= 1, and keeps every
\* other file and content; every file of a destination directory outside the
\* intake tree is still there under its name with its content.
C11_NeverOverwrites == []OutsideIntakeKept /\ [][MoveKeepsOthers]_vars

\* C11 witness: the two intake files named M42_NGC1976.tif were both routed to
\* "m", which held that name already: they are stored as -1 and -2.
C11_Witness ==
  /\ pc = "done"
  /\ \E f, g, h \in files :
       /\ f.dir = "m" /\ g.dir = "m" /\ h.dir = "m"
       /\ f.name = <<"M","4","2","_","N","G","C","1","9","7","6",".","t","i","f">>
       /\ sha256[f] = <<"m", f.name>>
       /\ g.name = <<"M","4","2","_","N","G","C","1","9","7","6","-","1",".","t","i","f">>
       /\ sha256[g][1] \in IntakeDirs /\ sha256[g][2] = f.name
       /\ h.name = <<"M","4","2","_","N","G","C","1","9","7","6","-","2",".","t","i","f">>
       /\ sha256[h][1] \in IntakeDirs /\ sha256[h][2] = f.name

\* the first image directories of the configured catalogs
DestinationDirs ==
  { FirstDirOf(PriorityOrder[k][1]) : k \in DOMAIN PriorityOrder } \ {""}

\* C11 as stated: after the run every file that was in a destination directory
\* before the run is there under the same name with the same content.
C11_Original ==
  pc = "done" =>
    \A f \in files :
      sha256[f][1] \in DestinationDirs => f.dir = sha256[f][1] /\ f.name = sha256[f][2]

\* whether _iter_files takes a file name for an image
IsImageName(name) ==
  Lower(PathSuffix(name)) \in
    { <<".","j","p","g">>, <<".","j","p","e","g">>, <<".","p","n","g">>,
      <<".","t","i","f">>, <<".","t","i","f","f">>, <<".","w","e","b","p">>,
      <<".","b","m","p">> }

\* the image names that carry no Messier, NGC, IC or Caldwell id
NoIdNames == { n \in RouterFileNames : IsImageName(n) /\ RanksOf[n] = {} }

\* whether the run walks the intake directory
RunWalks == config.master_image_dir = "intake"

\* every intake file without id is at its original path with its content
NoIdUntouched ==
  \A d \in IntakeDirs : \A n \in NoIdNames :
    (\E f \in files : sha256[f] = <<d, n>>) =>
      /\ [dir |-> d, name |-> n] \in files
      /\ sha256[[dir |-> d, name |-> n]] = <<d, n>>

\* the counts when the run is over: moved counts the files that left their
\* path; skipped counts every intake image that stayed once, and once more
\* only files that were moved to a place inside the intake tree
CountsAtEnd ==
  (pc = "done" /\ RunWalks) =>
    LET stayed == { f \in files : /\ f.dir \in IntakeDirs
                                  /\ IsImageName(f.name)
                                  /\ sha256[f] = <<f.dir, f.name>> }
        left == { f \in files : sha256[f] # <<f.dir, f.name>> }
        back == { f \in left : f.dir \in IntakeDirs }
    IN /\ moved = Cardinality(left)
       /\ skipped >= Cardinality(stayed)
       /\ skipped <= Cardinality(stayed) + Cardinality(back)

\* the iteration for a file without id adds one to skipped and nothing else
NoIdStep ==
  \A path \in listed :
    ( /\ pc = "walk"
      /\ listed' = listed \ {path}
      /\ path.name \in NoIdNames ) =>
        /\ skipped' = skipped + 1
        /\ moved' = moved
        /\ files' = files
        /\ sha256' = sha256

\* C20: every intake file whose name carries no Messier, NGC, IC or Caldwell id
\* is at its original path with its content after the run, and its iteration
\* adds exactly one to skipped and nothing to moved.
C20_NoIdSkipped == [](NoIdUntouched /\ CountsAtEnd) /\ [][NoIdStep]_vars

\* C20 witness: sky.jpg stayed in the intake and was counted as skipped, while
\* M42_NGC1976.tif was moved.
C20_Witness ==
  /\ pc = "done"
  /\ RunWalks
  /\ [dir |-> "intake", name |-> <<"s","k","y",".","j","p","g">>] \in files
  /\ Cardinality(files) = 2
  /\ skipped = 1
  /\ moved = 1

(***************************************************************************)
(* JSON values of the metadata files and of config.json: null, a string or *)
(* a number.                                                               *)
(***************************************************************************)
None == [type |-> "null", str |-> <<>>, num |-> 0]
Str(s) == [type |-> "str", str |-> s, num |-> 0]
Num(n) == [type |-> "num", str |-> <<>>, num |-> n]

\* bool(value)
Truthy(v) == (v.type = "str" /\ v.str # <<>>) \/ (v.type = "num" /\ v.num # 0)

\* "a or b"
Or(a, b) == IF Truthy(a) THEN a ELSE b

\* str.strip()
RECURSIVE LStrip(_)
LStrip(s) == IF s # <<>> /\ Head(s) = " " THEN LStrip(Tail(s)) ELSE s
RECURSIVE RStrip(_)
RStrip(s) ==
  IF s # <<>> /\ s[Len(s)] = " " THEN RStrip(SubSeq(s, 1, Len(s) - 1)) ELSE s
Strip(s) == RStrip(LStrip(s))

(***************************************************************************)
(* _select_thumbnail of app/catalog.py.                                    *)
(***************************************************************************)
\* "for path in image_paths: if <test>: return path", or NoPath
FirstPath(paths, Test(_)) ==
  LET hits == { i \in DOMAIN paths : Test(paths[i]) }
  IN IF hits = {} THEN NoPath
     ELSE paths[CHOOSE i \in hits : \A j \in hits : i <= j]

\* the stem compared before the name
_select_thumbnail_StemFirst(paths, value) ==
  LET normalized == Strip(value.str)
      by_name == FirstPath(paths, LAMBDA path : path.name = normalized)
      by_stem == FirstPath(paths, LAMBDA path : PathStem(path.name) = normalized)
  IN IF paths = <<>> THEN NoPath
     ELSE IF ~Truthy(value) THEN paths[1]
     ELSE IF by_stem # NoPath THEN by_stem
     ELSE IF by_name # NoPath THEN by_name
     ELSE paths[1]

_select_thumbnail(paths, value) ==
  LET normalized == Strip(value.str)
      by_name == FirstPath(paths, LAMBDA path : path.name = normalized)
      by_stem == FirstPath(paths, LAMBDA path : PathStem(path.name) = normalized)
  IN IF paths = <<>> THEN NoPath
     ELSE IF ~Truthy(value) THEN paths[1]
     ELSE IF by_name # NoPath THEN by_name
     ELSE IF by_stem # NoPath THEN by_stem
     ELSE paths[1]

(***************************************************************************)
(* _select_thumbnail as a state machine: the arguments are the input,      *)
(* SelectThumbnail is one call.                                            *)
(***************************************************************************)
\* the file names of the paths: b.jpg is the stem of b.jpg.png
ThumbNames ==
  { <<"a",".","j","p","g">>, <<"b",".","j","p","g">>,
    <<"b",".","j","p","g",".","p","n","g">>, <<"B",".","p","n","g">> }

\* the metadata thumbnail values
ThumbValues ==
  { None, Str(<<>>), Str(<<"b",".","j","p","g">>), Str(<<"B">>),
    Str(<<" ","b",".","j","p","g"," ">>), Str(<<"b">>), Str(<<" ">>) }

\* the path lists an image index holds: distinct paths, sorted by SortKey
SortedLists(S, n) ==
  { l \in UNION { Orders(T) : T \in SubsetsUpTo(S, n) } : SortedPaths(l) = l }

InitThumb ==
  /\ image_paths \in SortedLists([root : {"lib/a", "lib/b"}, name : ThumbNames], MaxPaths)
  /\ thumbnail_value \in ThumbValues
  /\ thumbnail_path = NoPath
  /\ pc = "input"
  /\ ExtractIdle
  /\ ExpandIdle
  /\ IndexIdle
  /\ DupIdle
  /\ RouterIdle
  /\ LoadIdle
  /\ SaveIdle
  /\ MonthIdle
  /\ ComputeIdle
  /\ NoteIdle

SelectThumbnail ==
  /\ pc = "input"
  /\ thumbnail_path' = _select_thumbnail(image_paths, thumbnail_value)
  /\ pc' = "done"
  /\ UNCHANGED <<image_paths, thumbnail_value>>
  /\ UNCHANGED <<extractVars, expandVars, indexVars, dupVars, routerVars, loadVars, saveVars, monthVars, computeVars, noteVars>>

NextThumb == SelectThumbnail

SpecThumb == InitThumb /\ [][NextThumb]_vars

\* a text without the spaces around it
RECURSIVE Trimmed(_)
Trimmed(s) ==
  IF s = <<>> THEN s
  ELSE IF s[1] = " " THEN Trimmed(SubSeq(s, 2, Len(s)))
  ELSE IF s[Len(s)] = " " THEN Trimmed(SubSeq(s, 1, Len(s) - 1))
  ELSE s

\* the place in the list of the thumbnail for the wanted text: the first path
\* with that name, else the first with that stem, else the first path
ChosenPlace(paths, wanted) ==
  LET named == { i \in DOMAIN paths : paths[i].name = wanted }
      stemmed == { i \in DOMAIN paths :
                     \/ paths[i].name = wanted
                     \/ \E e \in 1..Len(paths[i].name) :
                          /\ paths[i].name[e] = "."
                          /\ e > 1
                          /\ e < Len(paths[i].name)
                          /\ \A k \in (e + 1)..Len(paths[i].name) : paths[i].name[k] # "."
                          /\ SubSeq(paths[i].name, 1, e - 1) = wanted }
      least(S) == CHOOSE i \in S : \A j \in S : i <= j
  IN IF named # {} THEN least(named)
     ELSE IF stemmed # {} THEN least(stemmed)
     ELSE 1

\* C16 (as amended): for a non-empty path list the thumbnail is the first path
\* whose filename equals the thumbnail value without its surrounding white
\* space, else the first whose stem equals it, else (also without value) the
\* first path; there is no thumbnail exactly when the list is empty, and a
\* thumbnail is a member of the list.
C16_ThumbnailChoice ==
  pc = "done" =>
    /\ (thumbnail_path = NoPath) <=> (image_paths = <<>>)
    /\ image_paths # <<>> =>
         /\ \E i \in DOMAIN image_paths : image_paths[i] = thumbnail_path
         /\ thumbnail_path =
              image_paths[ChosenPlace(image_paths, Trimmed(thumbnail_value.str))]

\* C16 witness: the value " b.jpg " chose b.jpg, which is not the first path.
C16_Witness ==
  /\ pc = "done"
  /\ thumbnail_value = Str(<<" ","b",".","j","p","g"," ">>)
  /\ Len(image_paths) = 3
  /\ thumbnail_path.name = <<"b",".","j","p","g">>
  /\ thumbnail_path # image_paths[1]

\* C16 as stated: the filename and the stem are compared with the thumbnail
\* value exactly.
C16_Original ==
  pc = "done" =>
    /\ (thumbnail_path = NoPath) <=> (image_paths = <<>>)
    /\ image_paths # <<>> =>
         /\ \E i \in DOMAIN image_paths : image_paths[i] = thumbnail_path
         /\ thumbnail_path = image_paths[ChosenPlace(image_paths, thumbnail_value.str)]

(***************************************************************************)
(* Numbers of the metadata: a float is the exact rational <<n, d>>, d > 0, *)
(* in lowest terms; an Optional[float] is [known, value].                  *)
(***************************************************************************)
RECURSIVE GCD(_, _)
GCD(a, b) == IF b = 0 THEN a ELSE GCD(b, a % b)

Abs(n) == IF n < 0 THEN -n ELSE n

\* the rational n / d in lowest terms
Rat(n, d) ==
  LET g == GCD(Abs(n), d)
  IN IF n = 0 THEN <<0, 1>> ELSE <<n \div g, d \div g>>

\* the floats that are no rational: float("inf"), float("-inf"), float("nan")
PosInf == <<1, 0>>
NegInf == <<-1, 0>>
NaN == <<0, 0>>
IsFinite(a) == a[2] # 0

RatAdd(a, b) ==
  IF IsFinite(a) /\ IsFinite(b) THEN Rat(a[1] * b[2] + b[1] * a[2], a[2] * b[2])
  ELSE IF a = NaN \/ b = NaN THEN NaN
  ELSE IF ~IsFinite(a) /\ ~IsFinite(b) THEN (IF a = b THEN a ELSE NaN)
  ELSE IF IsFinite(a) THEN b ELSE a
RatDiv(a, k) == IF IsFinite(a) THEN Rat(a[1], a[2] * k) ELSE a
RatNeg(a) == <<-a[1], a[2]>>

NoFloat == [known |-> FALSE, value |-> <<0, 1>>]
Float(r) == [known |-> TRUE, value |-> r]

RECURSIVE Pow10(_)
Pow10(k) == IF k = 0 THEN 1 ELSE 10 * Pow10(k - 1)

\* float(text) of a text of digits with an optional sign and decimal point,
\* or of the words inf, infinity and nan in any case with an optional sign;
\* NoFloat stands for ValueError
ParseFloat(text) ==
  LET signed == text # <<>> /\ text[1] \in {"+", "-"}
      body == IF signed THEN Tail(text) ELSE text
      word == Lower(body)
      dots == { i \in DOMAIN body : body[i] = "." }
      digits == SelectSeq(body, IsDigit)
      point == IF dots = {} THEN Len(body) + 1 ELSE CHOOSE i \in dots : TRUE
      magnitude == Rat(StrToInt(digits), Pow10(Len(body) - point + (IF dots = {} THEN 1 ELSE 0)))
  IN IF word \in { <<"i","n","f">>, <<"i","n","f","i","n","i","t","y">> }
     THEN Float(IF signed /\ text[1] = "-" THEN NegInf ELSE PosInf)
     ELSE IF word = <<"n","a","n">> THEN Float(NaN)
     ELSE IF /\ digits # <<>>
             /\ Cardinality(dots) <= 1
             /\ Len(digits) + Cardinality(dots) = Len(body)
     THEN Float(IF signed /\ text[1] = "-" THEN RatNeg(magnitude) ELSE magnitude)
     ELSE NoFloat

\* re.split(r"[:\s]+", text)
RECURSIVE Split(_)
Split(text) ==
  LET IsBreak(c) == c \in {":", " "}
      breaks == { i \in DOMAIN text : IsBreak(text[i]) }
      first == CHOOSE i \in breaks : \A j \in breaks : i <= j
      after == { i \in first..Len(text) : ~IsBreak(text[i]) }
      next == IF after = {} THEN Len(text) + 1
              ELSE CHOOSE i \in after : \A j \in after : i <= j
  IN IF breaks = {} THEN <<text>>
     ELSE <<SubSeq(text, 1, first - 1)>> \o Split(SubSeq(text, next, Len(text)))

\* "float(parts[0]) + float(parts[1]) / 60.0 + float(parts[2]) / 3600.0" with
\* the missing parts 0.0; NoFloat stands for ValueError
Sexagesimal(parts) ==
  LET whole == ParseFloat(parts[1])
      minutes == IF Len(parts) > 1 THEN ParseFloat(parts[2]) ELSE Float(<<0, 1>>)
      seconds == IF Len(parts) > 2 THEN ParseFloat(parts[3]) ELSE Float(<<0, 1>>)
  IN IF whole.known /\ minutes.known /\ seconds.known
     THEN Float(RatAdd(whole.value,
                       RatAdd(RatDiv(minutes.value, 60), RatDiv(seconds.value, 3600))))
     ELSE NoFloat

_parse_ra(value) ==
  IF value = None \/ value = Str(<<>>) THEN NoFloat
  ELSE IF value.type = "num" THEN Float(<<value.num, 1>>)
  ELSE IF Strip(value.str) = <<>> THEN NoFloat
  ELSE Sexagesimal(Split(Strip(value.str)))

\* text.lstrip("+-")
RECURSIVE LStripSigns(_)
LStripSigns(text) ==
  IF text # <<>> /\ Head(text) \in {"+", "-"} THEN LStripSigns(Tail(text)) ELSE text

_parse_dec(value) ==
  LET text == Strip(value.str)
      magnitude == Sexagesimal(Split(LStripSigns(text)))
  IN IF value = None \/ value = Str(<<>>) THEN NoFloat
     ELSE IF value.type = "num" THEN Float(<<value.num, 1>>)
     ELSE IF text = <<>> THEN NoFloat
     ELSE IF ~magnitude.known THEN NoFloat
     ELSE IF Head(text) = "-" THEN Float(RatNeg(magnitude.value))
     ELSE magnitude

(***************************************************************************)
(* Best months (app/catalog.py).                                           *)
(***************************************************************************)
month_map ==
  << <<"J","a","n">>, <<"F","e","b">>, <<"M","a","r">>, <<"A","p","r">>,
     <<"M","a","y">>, <<"J","u","n">>, <<"J","u","l">>, <<"A","u","g">>,
     <<"S","e","p">>, <<"O","c","t">>, <<"N","o","v">>, <<"D","e","c">> >>

\* a variant of the loop that keeps the chunks that are no month
RECURSIVE ShiftedMonths_KeepOthers(_)
ShiftedMonths_KeepOthers(text) ==
  IF text = <<>> THEN <<>>
  ELSE LET chunk == SubSeq(text, 1, IF Len(text) < 3 THEN Len(text) ELSE 3)
           rest == SubSeq(text, Len(chunk) + 1, Len(text))
       IN IF \E i \in DOMAIN month_map : month_map[i] = chunk
          THEN month_map[((IndexOf(month_map, chunk) - 1 + 6) % 12) + 1]
                 \o ShiftedMonths_KeepOthers(rest)
          ELSE chunk \o ShiftedMonths_KeepOthers(rest)

\* "for idx in range(0, len(best_months), 3)": the chunks that are months,
\* each shifted by six months
RECURSIVE ShiftedMonths(_)
ShiftedMonths(text) ==
  IF text = <<>> THEN <<>>
  ELSE LET chunk == SubSeq(text, 1, IF Len(text) < 3 THEN Len(text) ELSE 3)
           rest == SubSeq(text, Len(chunk) + 1, Len(text))
       IN IF \E i \in DOMAIN month_map : month_map[i] = chunk
          THEN month_map[((IndexOf(month_map, chunk) - 1 + 6) % 12) + 1] \o ShiftedMonths(rest)
          ELSE ShiftedMonths(rest)

_adjust_best_months(best_months, latitude) ==
  IF ~Truthy(best_months) THEN best_months
  ELSE IF latitude = None \/ latitude.num >= 0 THEN best_months
  ELSE IF ShiftedMonths(best_months.str) = <<>> THEN best_months
  ELSE Str(ShiftedMonths(best_months.str))

\* _altitude_deg(lat_deg, dec_deg, ha) at 00:00 UTC on the 15th of each month
\* of 2025, for the right ascensions, declinations and latitudes of the model:
\* the arguments <<ra_hours, dec_deg, lat_deg, lon_deg>>, the altitudes of the
\* twelve months in millionths of a degree (rounded down), and the months in
\* which math.asin raises ValueError because sin_alt exceeds 1
_altitude_deg_values ==
  <<
    << <<<<0, 1>>, <<0, 1>>, <<0, 1>>, <<0, 1>>>>,
       <<-24698632, -55253700, -82851827, -66593106, -37023685, -6468616, 23100805, 53655873, 84210942, 66219636, 35664567, 6095146>>, {} >>,
    << <<<<0, 1>>, <<0, 1>>, <<50, 1>>, <<0, 1>>>>,
       <<-15580133, -31881766, -39627345, -36149244, -22771154, -4152754, 14607601, 31181278, 39755245, 36030342, 22010109, 3913541>>, {} >>,
    << <<<<0, 1>>, <<0, 1>>, <<-35, 1>>, <<0, 1>>>>,
       <<-20015778, -42305532, -54368965, -48741452, -29554314, -5295065, 18747269, 41284935, 54584826, 48556115, 28528608, 4989744>>, {} >>,
    << <<<<0, 1>>, <<0, 1>>, <<45, 1>>, <<0, 1>>>>,
       <<-17185201, -35522186, -44556391, -40459978, -25200101, -4569133, 16107080, 34719185, 44708531, 40321200, 24347560, 4305847>>, {} >>,
    << <<<<0, 1>>, <<0, 1>>, <<-12, 1>>, <<0, 1>>>>,
       <<-24124104, -53487588, -76059186, -63851225, -36085141, -6326678, 22567789, 51986959, 76695061, 63521384, 34771016, 5961464>>, {} >>,
    << <<<<0, 1>>, <<-19, 1>>, <<0, 1>>, <<0, 1>>>>,
       <<-23270999, -50979182, -69746417, -60193476, -34704172, -6114813, 21775714, 49604467, 70168842, 59910359, 33454466, 5761917>>, {} >>,
    << <<<<0, 1>>, <<-19, 1>>, <<50, 1>>, <<0, 1>>>>,
       <<-30222053, -48485885, -58478444, -53818618, -37978373, -18534170, -626945, 13894814, 20809890, 17864515, 6024429, -10653379>>, {} >>,
    << <<<<0, 1>>, <<-19, 1>>, <<-35, 1>>, <<0, 1>>>>,
       <<-7868088, -26722843, -35574808, -31604128, -16238559, 5709297, 29381507, 54154132, 73198438, 63573116, 39666327, 15603401>>, {} >>,
    << <<<<0, 1>>, <<-19, 1>>, <<45, 1>>, <<0, 1>>>>,
       <<-30635565, -51221671, -63328860, -57540846, -39256649, -17790250, 1839909, 17957604, 25782835, 22433265, 9183575, -9161710>>, {} >>,
    << <<<<0, 1>>, <<-19, 1>>, <<-12, 1>>, <<0, 1>>>>,
       <<-18587811, -43808506, -58209386, -51357539, -29288574, -2091989, 25502914, 54354253, 81051802, 66067484, 37366905, 9548973>>, {} >>,
    << <<<<0, 1>>, <<619, 15>>, <<0, 1>>, <<0, 1>>>>,
       <<-18304839, -38142318, -48228369, -43613685, -26910694, -4857617, 17152087, 37259897, 48401421, 43458697, 25991640, 4577636>>, {} >>,
    << <<<<0, 1>>, <<619, 15>>, <<50, 1>>, <<0, 1>>>>,
       <<17660349, 6214976, 1481886, 3546905, 12376181, 26796597, 44012846, 63433971, 80381332, 71331298, 51901480, 33817990>>, {} >>,
    << <<<<0, 1>>, <<619, 15>>, <<-35, 1>>, <<0, 1>>>>,
       <<-39463304, -62157259, -81586973, -70622940, -48509001, -26594699, -7858973, 6755330, 13548193, 10668591, -1107336, -18236151>>, {} >>,
    << <<<<0, 1>>, <<619, 15>>, <<45, 1>>, <<0, 1>>>>,
       <<14140448, 1699722, -3496175, -1224758, 8415183, 23985460, 42447531, 63442641, 84364807, 72317225, 50919863, 31521375>>, {} >>,
    << <<<<0, 1>>, <<619, 15>>, <<-12, 1>>, <<0, 1>>>>,
       <<-26381156, -47838149, -60070439, -54277081, -35439424, -12706719, 8704211, 27069450, 36465728, 32389331, 16949711, -3386166>>, {} >>,
    << <<<<0, 1>>, <<-1147, 60>>, <<0, 1>>, <<0, 1>>>>,
       <<-23253672, -50929491, -69637507, -60123219, -34676274, -6110497, 21759620, 49557141, 70057422, 59840898, 33427848, 5757852>>, {} >>,
    << <<<<0, 1>>, <<-1147, 60>>, <<50, 1>>, <<0, 1>>>>,
       <<-30308010, -48583069, -58593733, -53923775, -38066886, -18620376, -721032, 13787501, 20693504, 17752255, 5925140, -10741992>>, {} >>,
    << <<<<0, 1>>, <<-1147, 60>>, <<-35, 1>>, <<0, 1>>>>,
       <<-7791081, -26623366, -35459059, -31496302, -16153129, 5776398, 29440059, 54219268, 73310204, 63651175, 39724882, 15665640>>, {} >>,
    << <<<<0, 1>>, <<-1147, 60>>, <<45, 1>>, <<0, 1>>>>,
       <<-30713137, -51310914, -63443255, -57640205, -39336447, -17868970, 1751323, 17852860, 25666535, 22322283, 9088692, -9243598>>, {} >>,
    << <<<<0, 1>>, <<-1147, 60>>, <<-12, 1>>, <<0, 1>>>>,
       <<-18547201, -43734355, -58095866, -51266154, -29236574, -2064846, 25512118, 54342094, 80961310, 66039958, 37368416, 9568210>>, {} >>,
    << <<<<0, 1>>, <<89, 1>>, <<0, 1>>, <<0, 1>>>>,
       <<-417828, -821671, -992227, -917700, -602126, -112654, 392333, 805457, 994899, 915090, 583019, 106174>>, {} >>,
    << <<<<0, 1>>, <<89, 1>>, <<50, 1>>, <<0, 1>>>>,
       <<49573662, 49175007, 49007615, 49080689, 49391327, 49877103, 50383462, 50801742, 50994791, 50913366, 50576070, 50095870>>, {} >>,
    << <<<<0, 1>>, <<89, 1>>, <<-35, 1>>, <<0, 1>>>>,
       <<-35412759, -35819665, -35992132, -35916725, -35598202, -35106613, -34602522, -34192417, -34005040, -34083927, -34412976, -34887793>>, {} >>,
    << <<<<0, 1>>, <<89, 1>>, <<45, 1>>, <<0, 1>>>>,
       <<44575021, 44175534, 44007640, 44080944, 44392369, 44878748, 45384899, 45802348, 45994809, 45913648, 45577199, 45097531>>, {} >>,
    << <<<<0, 1>>, <<89, 1>>, <<-12, 1>>, <<0, 1>>>>,
       <<-12416295, -12821066, -12992199, -12917406, -12600941, -12110822, -11606100, -11193893, -11005082, -11084610, -11415759, -11891993>>, {} >>,
    << <<<<0, 1>>, <<-12, 1>>, <<0, 1>>, <<0, 1>>>>,
       <<-24124104, -53487588, -76059186, -63851225, -36085141, -6326678, 22567789, 51986959, 76695061, 63521384, 34771016, 5961464>>, {} >>,
    << <<<<0, 1>>, <<-12, 1>>, <<50, 1>>, <<0, 1>>>>,
       <<-24960047, -42523768, -51547500, -47414610, -32538283, -13303132, 5015027, 20313942, 27792119, 24587985, 11964813, -5308020>>, {} >>,
    << <<<<0, 1>>, <<-12, 1>>, <<-35, 1>>, <<0, 1>>>>,
       <<-12447564, -32623902, -42514034, -38029043, -21297864, 1660955, 25697791, 49874892, 66407977, 58482103, 35902952, 11790281>>, {} >>,
    << <<<<0, 1>>, <<-12, 1>>, <<45, 1>>, <<0, 1>>>>,
       <<-25850250, -45670847, -56438696, -51421278, -34297661, -12999167, 7143510, 24210669, 32759341, 29072510, 14847422, -4219406>>, {} >>,
    << <<<<0, 1>>, <<-12, 1>>, <<-12, 1>>, <<0, 1>>>>,
       <<-20888825, -47982236, -64973077, -56596018, -32200845, -3701691, 24747309, 54476869, 84337551, 66746631, 36946066, 8326696>>, {} >>,
    << <<<<5, 1>>, <<0, 1>>, <<0, 1>>, <<0, 1>>>>,
       <<50301368, 19746300, -7851827, -38406895, -67976316, -81468616, -51899195, -21344127, 9210942, 38780363, 69335432, 81095146>>, {} >>,
    << <<<<5, 1>>, <<0, 1>>, <<50, 1>>, <<0, 1>>>>,
       <<29641420, 12542845, -5037763, -23536095, -36575584, -39470067, -30386234, -13530005, 5905661, 23740909, 36972542, 39422946>>, {} >>,
    << <<<<5, 1>>, <<0, 1>>, <<-35, 1>>, <<0, 1>>>>,
       <<39069877, 16066651, -6425185, -30590036, -49409363, -54104523, -40136616, -17346262, 7534400, 30868202, 50036145, 54025509>>, {} >>,
    << <<<<5, 1>>, <<0, 1>>, <<45, 1>>, <<0, 1>>>>,
       <<32960343, 13821640, -5543362, -26058238, -40958214, -44369465, -33810022, -14913751, 6499029, 26288223, 41423025, 44313496>>, {} >>,
    << <<<<5, 1>>, <<0, 1>>, <<-12, 1>>, <<0, 1>>>>,
       <<48816211, 19297486, -7679199, -37420963, -65062890, -75312741, -50329661, -20855669, 9007967, 37781342, 66236416, 75095916>>, {} >>,
    << <<<<5, 1>>, <<-19, 1>>, <<0, 1>>, <<0, 1>>>>,
       <<46676883, 18629610, -7421568, -35972433, -61225746, -69237223, -48077865, -20129254, 8705104, 36314204, 62212932, 69086759>>, {} >>,
    << <<<<5, 1>>, <<-19, 1>>, <<50, 1>>, <<0, 1>>>>,
       <<12604843, -2525372, -19416202, -38826964, -54372164, -58259799, -46691252, -28073774, -8749485, 7542841, 18618521, 20551084>>, {} >>,
    << <<<<5, 1>>, <<-19, 1>>, <<-35, 1>>, <<0, 1>>>>,
       <<51505513, 26642074, 4641982, -17123263, -32091131, -35395346, -25008627, -5460762, 18102383, 42210062, 65703825, 72161951>>, {} >>,
    << <<<<5, 1>>, <<-19, 1>>, <<45, 1>>, <<0, 1>>>>,
       <<16511387, -247911, -18756546, -40207908, -58212416, -63049197, -49142307, -28265280, -7076337, 10867963, 23288189, 25487397>>, {} >>,
    << <<<<5, 1>>, <<-19, 1>>, <<-12, 1>>, <<0, 1>>>>,
       <<51195421, 22343455, -3362718, -30455599, -52155572, -57879694, -41307859, -15600573, 12458415, 40312872, 68914264, 78931580>>, {} >>,
    << <<<<5, 1>>, <<619, 15>>, <<0, 1>>, <<0, 1>>>>,
       <<35333105, 14711301, -5893743, -27836843, -44170782, -48015928, -36262929, -15877190, 6910344, 28085245, 44691462, 47952358>>, {} >>,
    << <<<<5, 1>>, <<619, 15>>, <<50, 1>>, <<0, 1>>>>,
       <<61282385, 41950691, 26056151, 11835504, 3288387, 1573074, 7183772, 19232619, 35633155, 53888371, 73200303, 79290560>>, {} >>,
    << <<<<5, 1>>, <<619, 15>>, <<-35, 1>>, <<0, 1>>>>,
       <<5476000, -9804566, -27543659, -49536372, -71639850, -80827037, -59636086, -37042786, -16245493, 420188, 11407742, 13296010>>, {} >>,
    << <<<<5, 1>>, <<619, 15>>, <<45, 1>>, <<0, 1>>>>,
       <<61083219, 40237045, 23189536, 7827739, -1508720, -3395716, 2758987, 15838982, 33467152, 53061171, 74511225, 82511774>>, {} >>,
    << <<<<5, 1>>, <<619, 15>>, <<-12, 1>>, <<0, 1>>>>,
       <<25376211, 6388425, -13743234, -36433004, -54955254, -59793578, -45700372, -23874158, -1114146, 18866594, 33421163, 36102363>>, {} >>,
    << <<<<5, 1>>, <<-1147, 60>>, <<0, 1>>, <<0, 1>>>>,
       <<46634180, 18616028, -7416320, -35943195, -61152466, -69131209, -48033015, -20114488, 8698935, 36284598, 62136569, 68981575>>, {} >>,
    << <<<<5, 1>>, <<-1147, 60>>, <<50, 1>>, <<0, 1>>>>,
       <<12498999, -2618211, -19502245, -38915924, -54478345, -58374526, -46786395, -28159444, -8838929, 7442171, 18505243, 20435078>>, {} >>,
    << <<<<5, 1>>, <<-1147, 60>>, <<-35, 1>>, <<0, 1>>>>,
       <<51568598, 26701056, 4709719, -17036814, -31982393, -35279981, -24911775, -5385820, 18163681, 42269094, 65786716, 72268089>>, {} >>,
    << <<<<5, 1>>, <<-1147, 60>>, <<45, 1>>, <<0, 1>>>>,
       <<16408469, -334987, -18835025, -40288142, -58313175, -63162684, -49229172, -28342706, -7159262, 10771400, 23175907, 25371590>>, {} >>,
    << <<<<5, 1>>, <<-1147, 60>>, <<-12, 1>>, <<0, 1>>>>,
       <<51186257, 22354632, -3334653, -30402163, -52061997, -57767442, -41238338, -15562691, 12475787, 40312332, 68881104, 78859477>>, {} >>,
    << <<<<5, 1>>, <<89, 1>>, <<0, 1>>, <<0, 1>>>>,
       <<769398, 337840, -136605, -621223, -927023, -988934, -786912, -363953, 160061, 626317, 935656, 987945>>, {} >>,
    << <<<<5, 1>>, <<89, 1>>, <<50, 1>>, <<0, 1>>>>,
       <<50765086, 50328563, 49853219, 49372472, 49071542, 49010842, 49209192, 49627093, 50149895, 50619913, 50934335, 50987691>>, {} >>,
    << <<<<5, 1>>, <<89, 1>>, <<-35, 1>>, <<0, 1>>>>,
       <<-34228132, -34656769, -35130599, -35617442, -35926154, -35988798, -35784562, -35358629, -34833997, -34369998, -34063591, -34011910>>, {} >>,
    << <<<<5, 1>>, <<89, 1>>, <<45, 1>>, <<0, 1>>>>,
       <<45765789, 45330064, 44854852, 44373476, 44071769, 44010877, 44209810, 44628525, 45151535, 45620955, 45934551, 45987732>>, {} >>,
    << <<<<5, 1>>, <<89, 1>>, <<-12, 1>>, <<0, 1>>>>,
       <<-11229847, -11660519, -12134784, -12620081, -12926761, -12988893, -12786203, -12362342, -11838132, -11372558, -11064114, -11012011>>, {} >>,
    << <<<<5, 1>>, <<-12, 1>>, <<0, 1>>, <<0, 1>>>>,
       <<48816211, 19297486, -7679199, -37420963, -65062890, -75312741, -50329661, -20855669, 9007967, 37781342, 66236416, 75095916>>, {} >>,
    << <<<<5, 1>>, <<-12, 1>>, <<50, 1>>, <<0, 1>>>>,
       <<18934871, 3046955, -14191466, -33358100, -47913248, -51357142, -40847094, -22837054, -3361018, 13564158, 25405376, 27509339>>, {} >>,
    << <<<<5, 1>>, <<-12, 1>>, <<-35, 1>>, <<0, 1>>>>,
       <<47370467, 22952064, 561101, -22241913, -38574387, -42309281, -30748645, -9926065, 14330177, 38396983, 60337346, 65622688>>, {} >>,
    << <<<<5, 1>>, <<-12, 1>>, <<45, 1>>, <<0, 1>>>>,
       <<22653281, 4971713, -13975319, -35218830, -52017595, -56203375, -43732878, -23500461, -2080454, 16630173, 30009239, 32432276>>, {} >>,
    << <<<<5, 1>>, <<-12, 1>>, <<-12, 1>>, <<0, 1>>>>,
       <<51204061, 21498608, -5018596, -33446645, -57535984, -64549720, -45209081, -17758647, 11325210, 39977678, 69791797, 81290118>>, {} >>,
    << <<<<1853, 100>>, <<0, 1>>, <<0, 1>>, <<0, 1>>>>,
       <<-73251369, -42696301, -15098174, 15456894, 45026315, 75581384, 74849194, 44294126, 13739057, -15830364, -46385433, -75954854>>, {} >>,
    << <<<<1853, 100>>, <<0, 1>>, <<50, 1>>, <<0, 1>>>>,
       <<-37989673, -25841439, -9638387, 9864079, 27047446, 38501950, 38348646, 26672202, 8781242, -10098801, -27734558, -38577405>>, {} >>,
    << <<<<1853, 100>>, <<0, 1>>, <<-35, 1>>, <<0, 1>>>>,
       <<-51665421, -33743577, -12319776, 12610080, 35414957, 52499746, 52249043, 34893177, 11218374, -12912137, -36374686, -52623468>>, {} >>,
    << <<<<1853, 100>>, <<0, 1>>, <<45, 1>>, <<0, 1>>>>,
       <<-42618225, -28652605, -10613489, 10862539, 30015191, 43222596, 43041557, 29590803, 9667959, -11121592, -30793328, -43311758>>, {} >>,
    << <<<<1853, 100>>, <<0, 1>>, <<-12, 1>>, <<0, 1>>>>,
       <<-69496839, -41551566, -14760654, 15110971, 43786445, 71322875, 70760325, 43084911, 13433134, -15475662, -45086658, -71605387>>, {} >>,
    << <<<<1853, 100>>, <<-19, 1>>, <<0, 1>>, <<0, 1>>>>,
       <<-64878293, -39878947, -14257654, 14595497, 41981421, 66310597, 65874665, 41322393, 12977065, -14947161, -43200396, -66527609>>, {} >>,
    << <<<<1853, 100>>, <<-19, 1>>, <<50, 1>>, <<0, 1>>>>,
       <<-56241248, -41416995, -24060885, -5015286, 10402046, 19829643, 19708973, 10080399, -6030315, -24531452, -43584318, -57034459>>, {} >>,
    << <<<<1853, 100>>, <<-19, 1>>, <<-35, 1>>, <<0, 1>>>>,
       <<-33705798, -19784027, -859745, 23151208, 47278537, 69531731, 69121815, 46687274, 21758044, -1406417, -21963389, -34376652>>, {} >>,
    << <<<<1853, 100>>, <<-19, 1>>, <<45, 1>>, <<0, 1>>>>,
       <<-60508833, -43124465, -23851007, -2982176, 14049786, 24665020, 24527632, 13691133, -4095714, -24367902, -45582825, -61498743>>, {} >>,
    << <<<<1853, 100>>, <<-19, 1>>, <<-12, 1>>, <<0, 1>>>>,
       <<-54878437, -34018961, -9974594, 18311081, 46216720, 74453938, 73821702, 45524953, 16698966, -10637951, -37006356, -56049311>>, {} >>,
    << <<<<1853, 100>>, <<619, 15>>, <<0, 1>>, <<0, 1>>>>,
       <<-46034814, -30643961, -11290560, 11555918, 32123057, 46716715, 46512259, 31662001, 10283372, -11831967, -32969363, -46817470>>, {} >>,
    << <<<<1853, 100>>, <<619, 15>>, <<50, 1>>, <<0, 1>>>>,
       <<2441640, 10231499, 22297006, 39347458, 57892379, 76702176, 76315228, 57422042, 38316428, 21928987, 8943289, 2094602>>, {} >>,
    << <<<<1853, 100>>, <<619, 15>>, <<-35, 1>>, <<0, 1>>>>,
       <<-75444571, -52734084, -32594368, -12369458, 3282827, 12592163, 12474312, 2961690, -13419464, -33111586, -55495876, -77321700>>, {} >>,
    << <<<<1853, 100>>, <<619, 15>>, <<45, 1>>, <<0, 1>>>>,
       <<-2439584, 6082998, 19143906, 37447420, 57392204, 78853776, 78351246, 56882095, 36342646, 18747359, 4679489, -2821451>>, {} >>,
    << <<<<1853, 100>>, <<619, 15>>, <<-12, 1>>, <<0, 1>>>>,
       <<-57263283, -39471524, -19186090, 3371824, 22518919, 35094988, 34927264, 22105032, 2148206, -19736361, -42023073, -58252394>>, {} >>,
    << <<<<1853, 100>>, <<-1147, 60>>, <<0, 1>>, <<0, 1>>>>,
       <<-64792504, -39845293, -14247416, 14585005, 41945177, 66218934, 65784859, 41286979, 12967781, -14936405, -43162572, -66434998>>, {} >>,
    << <<<<1853, 100>>, <<-1147, 60>>, <<50, 1>>, <<0, 1>>>>,
       <<-56351222, -41507559, -24146440, -5106641, 10298566, 19714677, 19594178, 9977250, -6121114, -24616993, -43676531, -57146213>>, {} >>,
    << <<<<1853, 100>>, <<-1147, 60>>, <<-35, 1>>, <<0, 1>>>>,
       <<-33593921, -19694348, -788360, 23210965, 47339260, 69626385, 69214970, 46747743, 21818178, -1334635, -21870860, -34263416>>, {} >>,
    << <<<<1853, 100>>, <<-1147, 60>>, <<45, 1>>, <<0, 1>>>>,
       <<-60615000, -43206325, -23928613, -3067447, 13949785, 24550562, 24413396, 13591538, -4180306, -24445459, -45666432, -61607575>>, {} >>,
    << <<<<1853, 100>>, <<-1147, 60>>, <<-12, 1>>, <<0, 1>>>>,
       <<-54776693, -33960834, -9941462, 18324770, 46211757, 74404902, 73774964, 45520535, 16713664, -10604282, -36943888, -55943676>>, {} >>,
    << <<<<1853, 100>>, <<89, 1>>, <<0, 1>>, <<0, 1>>>>,
       <<-957575, -678094, -260462, 266500, 707413, 968499, 965237, 698323, 237489, -272778, -723980, -970102>>, {} >>,
    << <<<<1853, 100>>, <<89, 1>>, <<50, 1>>, <<0, 1>>>>,
       <<49041578, 49316366, 49729897, 50256786, 50702140, 50967841, 50964512, 50692916, 50227628, 49717651, 49271145, 49029297>>, {} >>,
    << <<<<1853, 100>>, <<89, 1>>, <<-35, 1>>, <<0, 1>>>>,
       <<-35957061, -35674766, -35254748, -34727842, -34289560, -34031127, -34034350, -34298573, -34756763, -35267103, -35721046, -35969738>>, {} >>,
    << <<<<1853, 100>>, <<89, 1>>, <<45, 1>>, <<0, 1>>>>,
       <<44041712, 44317247, 44731441, 45258356, 45702999, 45967948, 45964631, 45693797, 45229221, 44719184, 44271920, 44029392>>, {} >>,
    << <<<<1853, 100>>, <<89, 1>>, <<-12, 1>>, <<0, 1>>>>,
       <<-12957420, -12677090, -12258731, -11731778, -11291663, -11031387, -11034636, -11300729, -11760763, -12271059, -12723094, -12969993>>, {} >>,
    << <<<<1853, 100>>, <<-12, 1>>, <<0, 1>>, <<0, 1>>>>,
       <<-69496839, -41551566, -14760654, 15110971, 43786445, 71322875, 70760325, 43084911, 13433134, -15475662, -45086658, -71605387>>, {} >>,
    << <<<<1853, 100>>, <<-12, 1>>, <<50, 1>>, <<0, 1>>>>,
       <<-49582336, -35847273, -18846881, 475463, 16590035, 26722363, 26590915, 16248668, -569721, -19316367, -37913855, -50283396>>, {} >>,
    << <<<<1853, 100>>, <<-12, 1>>, <<-35, 1>>, <<0, 1>>>>,
       <<-40391572, -25092777, -5132068, 19438659, 43320905, 63542781, 63208710, 42750006, 18032162, -5700031, -27441978, -41150927>>, {} >>,
    << <<<<1853, 100>>, <<-12, 1>>, <<45, 1>>, <<0, 1>>>>,
       <<-54030460, -38027189, -19097319, 2138744, 20016004, 31523854, 31372371, 19633101, 988545, -19614647, -40373787, -54884428>>, {} >>,
    << <<<<1853, 100>>, <<-12, 1>>, <<-12, 1>>, <<0, 1>>>>,
       <<-60804159, -37270015, -11887278, 17350720, 46060955, 75898084, 75182155, 45347451, 15691710, -12578141, -40501868, -62244452>>, {} >>,
    << <<<<11, 2>>, <<0, 1>>, <<0, 1>>, <<0, 1>>>>,
       <<57801368, 27246300, -351827, -30906895, -60476316, -88968616, -59399195, -28844127, 1710942, 31280363, 61835432, 88595146>>, {} >>,
    << <<<<11, 2>>, <<0, 1>>, <<50, 1>>, <<0, 1>>>>,
       <<32951619, 17114294, -226149, -19278750, -34008990, -39992212, -33591620, -18065198, 1099676, 19496677, 34518942, 39985550>>, {} >>,
    << <<<<11, 2>>, <<0, 1>>, <<-35, 1>>, <<0, 1>>>>,
       <<43881671, 22025631, -288199, -24882134, -45462116, -54986746, -44835421, -23277340, 1401453, 25171251, 46233166, 54975411>>, {} >>,
    << <<<<11, 2>>, <<0, 1>>, <<45, 1>>, <<0, 1>>>>,
       <<36752383, 18888356, -248778, -21296943, -37973027, -44990719, -37490615, -19945638, 1209729, 21539858, 38563540, 44982780>>, {} >>,
    << <<<<11, 2>>, <<0, 1>>, <<-12, 1>>, <<0, 1>>>>,
       <<55864649, 26603398, -344138, -30160245, -58335570, -77956407, -57344037, -28156804, 1673543, 30522713, 59579270, 77919243>>, {} >>,
    << <<<<11, 2>>, <<-19, 1>>, <<0, 1>>, <<0, 1>>>>,
       <<53139976, 25650091, -332658, -29055751, -55360525, -70973060, -54472905, -27138632, 1617702, 29402255, 56466703, 70950046>>, {} >>,
    << <<<<11, 2>>, <<-19, 1>>, <<50, 1>>, <<0, 1>>>>,
       <<15360825, 1653004, -14662906, -34164871, -51100619, -58989048, -50581309, -32861085, -13370881, 3793989, 16642882, 20988788>>, {} >>,
    << <<<<11, 2>>, <<-19, 1>>, <<-35, 1>>, <<0, 1>>>>,
       <<57367276, 32774077, 10485242, -12186325, -29157695, -35991114, -28680252, -10772739, 12114340, 36078359, 60406927, 73951677>>, {} >>,
    << <<<<11, 2>>, <<-19, 1>>, <<45, 1>>, <<0, 1>>>>,
       <<19605809, 4351597, -13551359, -35003413, -54289835, -63985846, -53676346, -33556203, -12136974, 6715198, 21051562, 25987189>>, {} >>,
    << <<<<11, 2>>, <<-19, 1>>, <<-12, 1>>, <<0, 1>>>>,
       <<58245254, 29413176, 3555212, -24038986, -47482976, -58983335, -46749669, -22240042, 5468759, 33223015, 62011153, 82870494>>, {} >>,
    << <<<<11, 2>>, <<619, 15>>, <<0, 1>>, <<0, 1>>>>,
       <<39497826, 20127894, -264449, -22710796, -40847508, -48722756, -40313513, -21260962, 1285943, 22971633, 41502252, 48713710>>, {} >>,
    << <<<<11, 2>>, <<619, 15>>, <<50, 1>>, <<0, 1>>>>,
       <<66078250, 46589584, 30151550, 14897365, 4866923, 1271152, 5128610, 15793460, 31310868, 49123318, 68622430, 81212034>>, {} >>,
    << <<<<11, 2>>, <<619, 15>>, <<-35, 1>>, <<0, 1>>>>,
       <<8204701, -5533437, -22463291, -43992863, -66074767, -83681189, -65268341, -42481225, -21095725, -3360364, 9468191, 13722417>>, {} >>,
    << <<<<11, 2>>, <<619, 15>>, <<45, 1>>, <<0, 1>>>>,
       <<66367722, 45211315, 27588547, 11150269, 223495, -3728390, 510277, 12120831, 28832551, 47931889, 69219498, 86128635>>, {} >>,
    << <<<<11, 2>>, <<619, 15>>, <<-12, 1>>, <<0, 1>>>>,
       <<29013690, 11505728, -8143093, -30982367, -50976402, -60719376, -50350563, -29460504, -6613980, 14159125, 30732984, 36717535>>, {} >>,
    << <<<<11, 2>>, <<-1147, 60>>, <<0, 1>>, <<0, 1>>>>,
       <<53086270, 25630745, -332424, -29033369, -55302250, -70856570, -54416515, -27117982, 1616564, 29379553, 56405956, 70833707>>, {} >>,
    << <<<<11, 2>>, <<-1147, 60>>, <<50, 1>>, <<0, 1>>>>,
       <<15251762, 1557283, -14750085, -34251807, -51201318, -59105685, -50681254, -32947628, -13458475, 3696593, 16532216, 20872138>>, {} >>,
    << <<<<11, 2>>, <<-1147, 60>>, <<-35, 1>>, <<0, 1>>>>,
       <<57435662, 32832329, 10549767, -12105232, -29054226, -35874467, -28577592, -10693040, 12178084, 36136591, 60479376, 74068034>>, {} >>,
    << <<<<11, 2>>, <<-1147, 60>>, <<45, 1>>, <<0, 1>>>>,
       <<19498874, 4261035, -13631409, -35081751, -54383372, -64102464, -53768941, -33634211, -12217565, 6622611, 20942605, 25870544>>, {} >>,
    << <<<<11, 2>>, <<-1147, 60>>, <<-12, 1>>, <<0, 1>>>>,
       <<58228907, 29419912, 3578413, -23992933, -47401137, -58866737, -46669459, -22195858, 5490674, 33227294, 61990014, 82755991>>, {} >>,
    << <<<<11, 2>>, <<89, 1>>, <<0, 1>>, <<0, 1>>>>,
       <<846193, 457798, -6141, -513626, -870142, -999838, -860724, -482410, 29855, 519206, 881585, 999699>>, {} >>,
    << <<<<11, 2>>, <<89, 1>>, <<50, 1>>, <<0, 1>>>>,
       <<50843187, 50449499, 49983462, 49478799, 49127377, 49000158, 49136628, 49509690, 50019459, 50511528, 50879224, 50999693>>, {} >>,
    << <<<<11, 2>>, <<89, 1>>, <<-35, 1>>, <<0, 1>>>>,
       <<-34152089, -34537400, -35000030, -35509099, -35868642, -35999836, -35859124, -35477694, -34964042, -34476359, -34117068, -34000297>>, {} >>,
    << <<<<11, 2>>, <<89, 1>>, <<45, 1>>, <<0, 1>>>>,
       <<45843678, 45450845, 44985135, 44480007, 44127770, 44000159, 44137048, 44510950, 45021133, 45512774, 45879610, 45999694>>, {} >>,
    << <<<<11, 2>>, <<89, 1>>, <<-12, 1>>, <<0, 1>>>>,
       <<-11153282, -11540739, -12004286, -12512258, -12869690, -12999838, -12860242, -12480984, -11968292, -11479441, -11118003, -11000300>>, {} >>,
    << <<<<11, 2>>, <<-12, 1>>, <<0, 1>>, <<0, 1>>>>,
       <<55864649, 26603398, -344138, -30160245, -58335570, -77956407, -57344037, -28156804, 1673543, 30522713, 59579270, 77919243>>, {} >>,
    << <<<<11, 2>>, <<-12, 1>>, <<50, 1>>, <<0, 1>>>>,
       <<21886853, 7387456, -9388642, -28830432, -44940333, -51990522, -44463042, -27554505, -8076618, 9624439, 23267582, 27987736>>, {} >>,
    << <<<<11, 2>>, <<-12, 1>>, <<-35, 1>>, <<0, 1>>>>,
       <<52870863, 29083219, 6565165, -16996018, -35307012, -42989831, -34778958, -15503266, 8231688, 32363180, 55652727, 66964709>>, {} >>,
    << <<<<11, 2>>, <<-12, 1>>, <<45, 1>>, <<0, 1>>>>,
       <<25993335, 9766610, -8700119, -30150989, -48491778, -56988214, -47931745, -28730457, -7259586, 12246006, 27564315, 32985797>>, {} >>,
    << <<<<11, 2>>, <<-12, 1>>, <<-12, 1>>, <<0, 1>>>>,
       <<58523456, 28767310, 2140622, -26629140, -52121124, -65978174, -51288087, -24730276, 4117021, 32684236, 62463167, 88625847>>, {} >>,
    << <<<<38232877, 5000000>>, <<0, 1>>, <<0, 1>>, <<0, 1>>>>,
       <<90000000, 59444931, 31846804, 1291736, -28277685, -58832754, -88402175, -61042758, -30487689, -918268, 29636801, 59206222>>, {} >>,
    << <<<<38232877, 5000000>>, <<0, 1>>, <<50, 1>>, <<0, 1>>>>,
       <<40000000, 33609574, 19826120, 830270, -17729143, -33367549, -39981310, -34223816, -19033466, -590237, 18533473, 33515635>>, {} >>,
    << <<<<38232877, 5000000>>, <<0, 1>>, <<-35, 1>>, <<0, 1>>>>,
       <<55000000, 44862302, 25608878, 1058099, -22834425, -44500529, -54968197, -45786201, -24557071, -752191, 23895569, 44721735>>, {} >>,
    << <<<<38232877, 5000000>>, <<0, 1>>, <<45, 1>>, <<0, 1>>>>,
       <<45000000, 37511352, 21907227, 913356, -19571838, -37231949, -44977727, -38221642, -21023627, -649300, 20466794, 37402873>>, {} >>,
    << <<<<38232877, 5000000>>, <<0, 1>>, <<-12, 1>>, <<0, 1>>>>,
       <<78000000, 57386237, 31072312, 1263504, -27606255, -56820694, -77895637, -58854965, -29753288, -898200, 28926956, 57165889>>, {} >>,
    << <<<<38232877, 5000000>>, <<-19, 1>>, <<0, 1>>, <<0, 1>>>>,
       <<71000000, 54510780, 29927435, 1221349, -26611269, -54002503, -70935406, -55823499, -28666587, -868235, 27875972, 54312921>>, {} >>,
    << <<<<38232877, 5000000>>, <<-19, 1>>, <<50, 1>>, <<0, 1>>>>,
       <<21000000, 15900875, 4088017, -13632812, -32501841, -50303832, -58973721, -51369198, -33900513, -15019029, 2931474, 15823931>>, {} >>,
    << <<<<38232877, 5000000>>, <<-19, 1>>, <<-35, 1>>, <<0, 1>>>>,
       <<74000000, 58617743, 36542254, 11782579, -10380746, -28423876, -35978675, -29403390, -11900853, 10039416, 34732115, 58437083>>, {} >>,
    << <<<<38232877, 5000000>>, <<-19, 1>>, <<45, 1>>, <<0, 1>>>>,
       <<26000000, 20214299, 7040222, -12423712, -33157972, -53349438, -63966044, -54608002, -34709720, -13941214, 5762366, 20127559>>, {} >>,
    << <<<<38232877, 5000000>>, <<-19, 1>>, <<-12, 1>>, <<0, 1>>>>,
       <<83000000, 59782534, 33758252, 5079539, -21743808, -46358628, -58960019, -47863011, -23674462, 3030501, 31670350, 59559491>>, {} >>,
    << <<<<38232877, 5000000>>, <<619, 15>>, <<0, 1>>, <<0, 1>>>>,
       <<48733333, 40336451, 23366235, 970895, -20860242, -40027507, -48707952, -41123016, -22417393, -690202, 21819888, 40216473>>, {} >>,
    << <<<<38232877, 5000000>>, <<619, 15>>, <<50, 1>>, <<0, 1>>>>,
       <<81266666, 67119232, 49480929, 31074181, 16043416, 5269668, 1277432, 4732769, 15077657, 29835577, 48088158, 66968376>>, {} >>,
    << <<<<38232877, 5000000>>, <<619, 15>>, <<-35, 1>>, <<0, 1>>>>,
       <<13733333, 8737390, -3062728, -21372541, -42067237, -64843848, -83608901, -66498386, -43685159, -22841186, -4234571, 8661536>>, {} >>,
    << <<<<38232877, 5000000>>, <<619, 15>>, <<45, 1>>, <<0, 1>>>>,
       <<86266666, 67529278, 48316179, 28578613, 12391422, 664820, -3721468, 76434, 11345606, 27249407, 46819965, 67360534>>, {} >>,
    << <<<<38232877, 5000000>>, <<619, 15>>, <<-12, 1>>, <<0, 1>>>>,
       <<36733333, 29735659, 14525389, -6924247, -29041266, -50016720, -60699847, -51300625, -30673739, -8563993, 13087370, 29632599>>, {} >>,
    << <<<<38232877, 5000000>>, <<-1147, 60>>, <<0, 1>>, <<0, 1>>>>,
       <<70883333, 54454312, 29904244, 1220490, -26591085, -53947080, -70819163, -55764206, -28644561, -867625, 27854663, 54256863>>, {} >>,
    << <<<<38232877, 5000000>>, <<-1147, 60>>, <<50, 1>>, <<0, 1>>>>,
       <<20883333, 15791145, 3990381, -13720318, -32588288, -50403387, -59090317, -51470298, -33987363, -15106101, 2834770, 15714297>>, {} >>,
    << <<<<38232877, 5000000>>, <<-1147, 60>>, <<-35, 1>>, <<0, 1>>>>,
       <<74116666, 58687668, 36600507, 11846478, -10301424, -28321645, -35862055, -29299500, -11820046, 10104163, 34790321, 58506774>>, {} >>,
    << <<<<38232877, 5000000>>, <<-1147, 60>>, <<45, 1>>, <<0, 1>>>>,
       <<25883333, 20106525, 6947343, -12504190, -33235903, -53441549, -64082592, -54702046, -34787985, -14021123, 5670615, 20019906>>, {} >>,
    << <<<<38232877, 5000000>>, <<-1147, 60>>, <<-12, 1>>, <<0, 1>>>>,
       <<82883333, 59764335, 33762179, 5101713, -21700127, -46279266, -58843515, -47780307, -23628794, 3054058, 31675638, 59541569>>, {} >>,
    << <<<<38232877, 5000000>>, <<89, 1>>, <<0, 1>>, <<0, 1>>>>,
       <<1000000, 861129, 527630, 22542, -473727, -855649, -999612, -874971, -507335, -16026, 494481, 859004>>, {} >>,
    << <<<<38232877, 5000000>>, <<89, 1>>, <<50, 1>>, <<0, 1>>>>,
       <<51000000, 50858392, 50520043, 50012143, 49518286, 49141614, 49000380, 49122634, 49485023, 49973582, 50486543, 50856228>>, {} >>,
    << <<<<38232877, 5000000>>, <<89, 1>>, <<-35, 1>>, <<0, 1>>>>,
       <<-34000000, -34137308, -34467989, -34971353, -35468960, -35853995, -35999607, -35873523, -35502769, -35009916, -34500931, -34139411>>, {} >>,
    << <<<<38232877, 5000000>>, <<89, 1>>, <<45, 1>>, <<0, 1>>>>,
       <<46000000, 45858839, 45521275, 45013817, 44519561, 44142048, 44000382, 44123014, 44486242, 44975253, 45487831, 45856681>>, {} >>,
    << <<<<38232877, 5000000>>, <<89, 1>>, <<-12, 1>>, <<0, 1>>>>,
       <<-11000000, -11138393, -11471034, -11975605, -12472286, -12855151, -12999610, -12874535, -12505955, -12014171, -11504120, -11140512>>, {} >>,
    << <<<<38232877, 5000000>>, <<-12, 1>>, <<0, 1>>, <<0, 1>>>>,
       <<78000000, 57386237, 31072312, 1263504, -27606255, -56820694, -77895637, -58854965, -29753288, -898200, 28926956, 57165889>>, {} >>,
    << <<<<38232877, 5000000>>, <<-12, 1>>, <<50, 1>>, <<0, 1>>>>,
       <<28000000, 22467862, 9932369, -8342827, -27202243, -44207458, -51977255, -45186633, -28572046, -9749789, 8722156, 22385030>>, {} >>,
    << <<<<38232877, 5000000>>, <<-12, 1>>, <<-35, 1>>, <<0, 1>>>>,
       <<67000000, 54022116, 32822180, 7892563, -15089994, -34495806, -42975598, -35579140, -16694246, 6108541, 31029033, 53856351>>, {} >>,
    << <<<<38232877, 5000000>>, <<-12, 1>>, <<45, 1>>, <<0, 1>>>>,
       <<33000000, 26653672, 12587822, -7551870, -28338774, -47632465, -56971720, -48781376, -29863082, -9096648, 11245173, 26559467>>, {} >>,
    << <<<<38232877, 5000000>>, <<-12, 1>>, <<-12, 1>>, <<0, 1>>>>,
       <<0, 60128367, 33234591, 3715136, -24207302, -50845407, -65947649, -52554396, -26243980, 1598411, 31087841, 59895253>>, {1} >>
  >>

\* "alt >= 25.0", in millionths of a degree
MinAltitude == 25000000

month_names == month_map

\* "if alt >= 25.0: best.append(month_names[month - 1])" from a month on
RECURSIVE BestFrom(_, _)
BestFrom(altitudes, month) ==
  IF month > 12 THEN <<>>
  ELSE (IF altitudes[month] >= MinAltitude THEN month_names[month] ELSE <<>>)
         \o BestFrom(altitudes, month + 1)

\* how the call ends: [raised, value].  An infinite declination makes
\* math.sin raise ValueError; with a right ascension that is no finite number
\* or a declination that is nan every altitude is nan and no month is taken.
_compute_best_months(ra_hours, dec_deg, lat_deg, lon_deg) ==
  IF dec_deg \in {PosInf, NegInf} THEN [raised |-> TRUE, value |-> <<>>]
  ELSE IF ~IsFinite(ra_hours) \/ ~IsFinite(dec_deg) THEN [raised |-> FALSE, value |-> <<>>]
  ELSE LET row == _altitude_deg_values[
                    CHOOSE i \in DOMAIN _altitude_deg_values :
                      _altitude_deg_values[i][1] = <<ra_hours, dec_deg, lat_deg, lon_deg>>]
       IN IF row[3] # {} THEN [raised |-> TRUE, value |-> <<>>]
          ELSE [raised |-> FALSE, value |-> BestFrom(row[2], 1)]

(***************************************************************************)
(* load_catalog_items of app/catalog.py.                                   *)
(*                                                                         *)
(* A metadata file on disk is [kind, encoding, data]: kind "missing" (no   *)
(* file), "invalid" (no JSON), "list" (JSON that is no object) or "dict";  *)
(* data is the object as a sequence of [key, is_dict, entries], entries a  *)
(* sequence of [object_id, meta] when the value is an object.  A meta is   *)
(* [kind, thumbnail, ra_hours, ra, dec_deg, dec, best_months, notes].      *)
(***************************************************************************)

\* value.replace(old, new) for a word old
RECURSIVE ReplaceWord(_, _, _)
ReplaceWord(s, old, new) ==
  IF Len(s) < Len(old) THEN s
  ELSE IF SubSeq(s, 1, Len(old)) = old
       THEN new \o ReplaceWord(SubSeq(s, Len(old) + 1, Len(s)), old, new)
       ELSE <<s[1]>> \o ReplaceWord(Tail(s), old, new)

\* _normalize_text(value) for null and for a string: "M\u008echain" becomes
\* "M\u00e9chain"; the two characters are written U+008E and U+00E9
_normalize_text(value) ==
  IF value.type = "str"
  THEN Str(ReplaceWord(value.str, <<"M","U+008E","c","h","a","i","n">>,
                                  <<"M","U+00E9","c","h","a","i","n">>))
  ELSE value

\* a metadata record with no field
EmptyMeta ==
  [kind |-> "dict", thumbnail |-> None, ra_hours |-> None, ra |-> None,
   dec_deg |-> None, dec |-> None, best_months |-> None, notes |-> None]

\* a metadata value that is a string instead of an object
MalformedMeta == [EmptyMeta EXCEPT !.kind = "str"]

\* building the CatalogItem of a metadata entry raises: _compute_best_months
\* is called (lines 452-454) and raises
MetadataItemRaises(meta, latitude, longitude) ==
  /\ ~Truthy(_adjust_best_months(meta.best_months, latitude))
  /\ _parse_ra(Or(meta.ra_hours, meta.ra)).known
  /\ _parse_dec(Or(meta.dec_deg, meta.dec)).known
  /\ latitude # None
  /\ _compute_best_months(_parse_ra(Or(meta.ra_hours, meta.ra)).value,
                          _parse_dec(Or(meta.dec_deg, meta.dec)).value,
                          <<latitude.num, 1>>, longitude).raised

\* the CatalogItem of a metadata entry (lines 448-477)
MetadataItem(object_id, meta, catalog_name, image_index, latitude, longitude) ==
  LET paths == IF Upper(object_id) \in DOMAIN image_index
               THEN image_index[Upper(object_id)] ELSE <<>>
      ra_hours == _parse_ra(Or(meta.ra_hours, meta.ra))
      dec_deg == _parse_dec(Or(meta.dec_deg, meta.dec))
      best_months == _adjust_best_months(meta.best_months, latitude)
  IN [object_id |-> object_id,
      catalog |-> catalog_name,
      best_months |-> IF /\ ~Truthy(best_months)
                         /\ ra_hours.known
                         /\ dec_deg.known
                         /\ latitude # None
                      THEN Str(_compute_best_months(ra_hours.value, dec_deg.value,
                                                    <<latitude.num, 1>>, longitude).value)
                      ELSE best_months,
      ra_hours |-> ra_hours,
      dec_deg |-> dec_deg,
      notes |-> _normalize_text(meta.notes),
      image_paths |-> paths,
      thumbnail_path |-> _select_thumbnail(paths, meta.thumbnail)]

\* the CatalogItem of an id that has images only (lines 487-508)
ImageOnlyItem(object_id, catalog_name, image_index) ==
  [object_id |-> object_id,
   catalog |-> catalog_name,
   best_months |-> None,
   ra_hours |-> NoFloat,
   dec_deg |-> NoFloat,
   notes |-> None,
   image_paths |-> image_index[object_id],
   thumbnail_path |-> IF image_index[object_id] # <<>>
                      THEN image_index[object_id][1] ELSE NoPath]

\* _catalog_prefix
_catalog_prefix(catalog_name) ==
  LET name == Lower(Strip(catalog_name))
  IN IF name = Lower(Messier) THEN <<"M">>
     ELSE IF name = Lower(NGC) THEN <<"N","G","C">>
     ELSE IF name = Lower(IC) THEN <<"I","C">>
     ELSE IF name = Lower(Caldwell) THEN <<"C">>
     ELSE <<>>

\* re.match(r"^<prefix>\\d+$", value) of a raw string: the prefix, one
\* backslash, one or more letters d, and the end of the text
MatchesBackslashD(value, prefix) ==
  \E k \in 1..Len(value) :
    /\ Len(value) = Len(prefix) + 1 + k
    /\ SubSeq(value, 1, Len(prefix)) = prefix
    /\ value[Len(prefix) + 1] = "\\"
    /\ \A j \in (Len(prefix) + 2)..Len(value) : value[j] = "d"

\* _matches_catalog_object_id
_matches_catalog_object_id(catalog_name, object_id) ==
  LET name == Lower(Strip(catalog_name))
      value == Upper(Strip(object_id))
  IN IF name = Lower(Messier) THEN MatchesBackslashD(value, <<"M">>)
     ELSE IF name = Lower(Caldwell) THEN MatchesBackslashD(value, <<"C">>)
     ELSE IF name = Lower(NGC) THEN MatchesBackslashD(value, <<"N","G","C">>)
     ELSE IF name = Lower(IC) THEN MatchesBackslashD(value, <<"I","C">>)
     ELSE TRUE

\* _select_catalog_entries
_select_catalog_entries(catalog_data, catalog_name) ==
  LET data == catalog_data.data
      exact == { i \in DOMAIN data : data[i].key = catalog_name }
      folded == { i \in DOMAIN data :
                    Lower(data[i].key) = Lower(catalog_name) /\ data[i].is_dict }
  IN IF catalog_data.kind # "dict" THEN <<>>
     ELSE IF exact # {} /\ data[CHOOSE i \in exact : TRUE].is_dict
          THEN data[CHOOSE i \in exact : TRUE].entries
     ELSE IF folded # {} THEN data[CHOOSE i \in folded : \A j \in folded : i <= j].entries
     ELSE IF Len(data) = 1 /\ data[1].is_dict THEN data[1].entries
     ELSE <<>>

\* _collect_catalog_image_dirs that leaves out the catalogs whose metadata file
\* does not exist
_collect_catalog_image_dirs_Loaded(cfg, name) ==
  LET named == { i \in DOMAIN cfg.catalogs :
                   /\ cfg.catalogs[i].name = name
                   /\ metadata[cfg.catalogs[i].metadata_file].kind # "missing" }
  IN IF named = {} THEN <<>>
     ELSE SelectSeq(cfg.catalogs[CHOOSE i \in named : \A j \in named : j <= i].image_dirs,
                    LAMBDA path : path # "")

\* _collect_catalog_image_dirs(config).get(name, [])
_collect_catalog_image_dirs(cfg, name) ==
  LET named == { i \in DOMAIN cfg.catalogs : cfg.catalogs[i].name = name }
  IN IF named = {} THEN <<>>
     ELSE SelectSeq(cfg.catalogs[CHOOSE i \in named : \A j \in named : j <= i].image_dirs,
                    LAMBDA path : path # "")

\* _unique_paths
_unique_paths(paths) == Dedupe(paths)

\* the image_dirs of a catalog without the directories of its sibling
CatalogImageDirs_NoSibling(cfg, catalog_name) ==
  _unique_paths(
    _collect_catalog_image_dirs(cfg, catalog_name)
      \o (IF cfg.master_image_dir # "" THEN <<cfg.master_image_dir>> ELSE <<>>))

\* the image_dirs of a catalog (lines 430-437)
CatalogImageDirs(cfg, catalog_name) ==
  _unique_paths(
    _collect_catalog_image_dirs(cfg, catalog_name)
      \o (IF catalog_name = Messier THEN _collect_catalog_image_dirs(cfg, NGC)
          ELSE IF catalog_name = NGC THEN _collect_catalog_image_dirs(cfg, Messier)
          ELSE <<>>)
      \o (IF cfg.master_image_dir # "" THEN <<cfg.master_image_dir>> ELSE <<>>))

\* the index and seen sets after the walk of all directories, for every
\* order the walks can yield the files in
RECURSIVE WalkAll(_, _)
WalkAll(accs, image_dirs_) ==
  IF image_dirs_ = <<>> THEN accs
  ELSE WalkAll(
         IF ~DirExists(Head(image_dirs_)) THEN accs
         ELSE { IndexFiles(acc, order) : acc \in accs, order \in WalkOrders(Head(image_dirs_)) },
         Tail(image_dirs_))

\* the indexes _build_image_index(image_dirs, extensions) can return
_build_image_index(image_dirs_) ==
  { [object_id \in DOMAIN acc.index |-> SortedPaths(acc.index[object_id])] :
      acc \in WalkAll({[index |-> <<>>, seen |-> <<>>]}, image_dirs_) }

\* the records of the metadata entries (lines 447-477)
MetadataItems(entries, catalog_name, image_index, latitude, longitude) ==
  [i \in DOMAIN entries |->
     MetadataItem(entries[i].object_id, entries[i].meta, catalog_name, image_index,
                  latitude, longitude)]

\* the ids that get an image-only record (lines 480-486)
ImageOnlyIds(entries, catalog_name, image_index) ==
  { object_id \in DOMAIN image_index :
      /\ _catalog_prefix(catalog_name) # <<>>
      /\ _matches_catalog_object_id(catalog_name, object_id)
      /\ \A i \in DOMAIN entries : entries[i].object_id # object_id }

(***************************************************************************)
(* The loader as a state machine: LoadCatalog is one iteration of the loop *)
(* over config["catalogs"], Return the return of the list.  An exception   *)
(* that leaves load_catalog_items ends the run at pc = "raised".           *)
(***************************************************************************)
\* the catalog entries of config.json
MessierCfg == [name |-> Messier, metadata_file |-> "m.json", image_dirs |-> <<"lib/a">>]
NgcCfg == [name |-> NGC, metadata_file |-> "n.json", image_dirs |-> <<"lib/b">>]
IcCfg == [name |-> IC, metadata_file |-> "i.json", image_dirs |-> <<"ic">>]

\* the catalog lists of the configurations
CatalogLists ==
  { <<MessierCfg>>, <<NgcCfg>>, <<MessierCfg, NgcCfg>>, <<NgcCfg, MessierCfg>>,
    <<MessierCfg, IcCfg>>, <<IcCfg, NgcCfg>>, <<MessierCfg, MessierCfg>>,
    <<MessierCfg, NgcCfg, MessierCfg>> }

Missing == [kind |-> "missing", encoding |-> "utf-8", data |-> <<>>]
Invalid == [kind |-> "invalid", encoding |-> "utf-8", data |-> <<>>]
JsonList == [kind |-> "list", encoding |-> "utf-8", data |-> <<>>]
JsonDict(encoding, data) == [kind |-> "dict", encoding |-> encoding, data |-> data]
Entry(object_id, meta) == [object_id |-> object_id, meta |-> meta]
Section(key, entries) == [key |-> key, is_dict |-> TRUE, entries |-> entries]

\* the contents a metadata file can have
MetadataContents(file) ==
  IF file = "m.json"
  THEN { Missing, Invalid,
         JsonDict("utf-8", <<Section(Messier, <<>>)>>),
         JsonDict("utf-8", <<Section(Messier, <<Entry(Id("M", 42), EmptyMeta),
                                                Entry(Id("M", 25), EmptyMeta)>>)>>),
         JsonDict("utf-8", <<Section(Messier, <<Entry(Id("M", 42), MalformedMeta)>>)>>) }
  ELSE IF file = "n.json"
  THEN { Missing, Invalid, JsonList,
         JsonDict("utf-8", <<Section(Lower(NGC), <<Entry(Id("NGC", 1976), EmptyMeta)>>)>>) }
  ELSE { Missing,
         JsonDict("latin-1", <<Section(IC, <<Entry(Id("IC", 4725), EmptyMeta)>>)>>) }

\* the image files the catalog directories can hold
LoadCandidates ==
  { [dir |-> "lib/a", name |-> <<"a","_","M","4","2",".","j","p","g">>],
    [dir |-> "lib/a", name |-> <<"M","2","5",".","j","p","g">>],
    [dir |-> "lib/b", name |-> <<"N","G","C","1","9","7","6",".","p","n","g">>],
    [dir |-> "ic", name |-> <<"I","C","4","7","2","5",".","j","p","g">>] }

\* what every load starts from
LoadStart ==
  /\ items = <<>>
  /\ loaded = 0
  /\ pc = "load"
  /\ ExtractIdle
  /\ ExpandIdle
  /\ image_dirs = <<>> /\ walked = 0 /\ index = <<>> /\ seen = <<>>
  /\ sha256 = <<>> /\ scanned = 0 /\ groups = <<>> /\ report = <<>> /\ payload = <<>>
  /\ RouterIdle
  /\ ThumbIdle
  /\ SaveIdle
  /\ MonthIdle
  /\ ComputeIdle
  /\ NoteIdle

InitLoad ==
  /\ files \in SUBSET LoadCandidates
  /\ \E catalogs \in CatalogLists : \E master \in {"", "lib"} :
       /\ config = [catalogs |-> catalogs,
                    master_image_dir |-> master,
                    observer |-> [latitude |-> None, longitude |-> None]]
       /\ metadata \in { m \in [{"m.json", "n.json", "i.json"} ->
                                  UNION { MetadataContents(f) : f \in {"m.json", "n.json", "i.json"} }] :
                           \A f \in DOMAIN m :
                             /\ m[f] \in MetadataContents(f)
                             /\ (\A i \in DOMAIN catalogs : catalogs[i].metadata_file # f)
                                  => m[f] = Missing }
  /\ LoadStart

\* _load_catalog_metadata raises: the file is no JSON in either encoding
LoadRaises(content) == content.kind = "invalid"

\* the iteration raises: the file cannot be parsed, an entry is no object
\* ("meta.get" of a string), or _compute_best_months raises
CatalogRaises(content, catalog_name) ==
  \/ LoadRaises(content)
  \/ \E i \in DOMAIN _select_catalog_entries(content, catalog_name) :
       \/ _select_catalog_entries(content, catalog_name)[i].meta.kind # "dict"
       \/ MetadataItemRaises(_select_catalog_entries(content, catalog_name)[i].meta,
                             config.observer.latitude,
                             <<Or(config.observer.longitude, Num(0)).num, 1>>)

\* one iteration that puts the records of the metadata entries behind the
\* image-only records and again in front of them
CatalogItems_Twice(content, catalog_name, image_index, id_order) ==
  MetadataItems(_select_catalog_entries(content, catalog_name), catalog_name, image_index,
                config.observer.latitude,
                <<Or(config.observer.longitude, Num(0)).num, 1>>)
    \o [i \in DOMAIN id_order |-> ImageOnlyItem(id_order[i], catalog_name, image_index)]
    \o MetadataItems(_select_catalog_entries(content, catalog_name), catalog_name, image_index,
                     config.observer.latitude,
                     <<Or(config.observer.longitude, Num(0)).num, 1>>)

\* the records one iteration appends, for one index and one order of its ids
CatalogItems(content, catalog_name, image_index, id_order) ==
  MetadataItems(_select_catalog_entries(content, catalog_name), catalog_name, image_index,
                config.observer.latitude,
                <<Or(config.observer.longitude, Num(0)).num, 1>>)
    \o [i \in DOMAIN id_order |-> ImageOnlyItem(id_order[i], catalog_name, image_index)]

LoadCatalog ==
  /\ pc = "load"
  /\ loaded < Len(config.catalogs)
  /\ LET catalog_cfg == config.catalogs[loaded + 1]
         content == metadata[catalog_cfg.metadata_file]
     IN IF content.kind = "missing"
        THEN /\ items' = items
             /\ loaded' = loaded + 1
             /\ pc' = pc
        ELSE IF CatalogRaises(content, catalog_cfg.name)
        THEN /\ pc' = "raised"
             /\ UNCHANGED <<items, loaded>>
        ELSE /\ \E image_index \in _build_image_index(CatalogImageDirs(config, catalog_cfg.name)) :
                  \E id_order \in Orders(ImageOnlyIds(
                                    _select_catalog_entries(content, catalog_cfg.name),
                                    catalog_cfg.name, image_index)) :
                    items' = items \o CatalogItems(content, catalog_cfg.name,
                                                   image_index, id_order)
             /\ loaded' = loaded + 1
             /\ pc' = pc
  /\ UNCHANGED <<files, config, metadata>>
  /\ UNCHANGED <<extractVars, expandVars, image_dirs, walked, index, seen,
                 sha256, scanned, groups, report, payload, routerVars, thumbVars, saveVars, monthVars, computeVars, noteVars>>

Return ==
  /\ pc = "load"
  /\ loaded = Len(config.catalogs)
  /\ pc' = "done"
  /\ UNCHANGED <<files, config, metadata, items, loaded>>
  /\ UNCHANGED <<extractVars, expandVars, image_dirs, walked, index, seen,
                 sha256, scanned, groups, report, payload, routerVars, thumbVars, saveVars, monthVars, computeVars, noteVars>>

NextLoad == LoadCatalog \/ Return

SpecLoad == InitLoad /\ [][NextLoad]_vars

(***************************************************************************)
(* Properties of load_catalog_items.                                    *)
(***************************************************************************)
\* a catalog id: the prefix followed by one or more digits
HasCatalogForm(value, prefix) ==
  /\ Len(value) > Len(prefix)
  /\ SubSeq(value, 1, Len(prefix)) = prefix
  /\ \A j \in (Len(prefix) + 1)..Len(value) : IsDigit(value[j])

\* the catalogs of the configuration whose metadata file exists
Present == { k \in DOMAIN config.catalogs :
               metadata[config.catalogs[k].metadata_file].kind # "missing" }

\* the metadata keys of the k-th configured catalog
MetadataKeys(k) ==
  { e.object_id :
      e \in Range(_select_catalog_entries(metadata[config.catalogs[k].metadata_file],
                                          config.catalogs[k].name)) }

\* the ids of an index that have the form of the k-th catalog and no metadata
ImageOnly(k, image_index) ==
  { object_id \in DOMAIN image_index :
      /\ HasCatalogForm(object_id, _catalog_prefix(config.catalogs[k].name))
      /\ object_id \notin MetadataKeys(k) }

\* C12: after a load, every id of the image index of a loaded catalog named
\* Messier, NGC, IC or Caldwell that has the catalog's form (M, NGC, IC or C
\* followed by digits) and is no metadata key has exactly one image-only
\* record: that object id and catalog, empty metadata fields, the id's image
\* paths and the first path as thumbnail.
C12_ImageOnlyRecords ==
  pc = "done" =>
    \A k \in Present :
      config.catalogs[k].name \in {Messier, NGC, IC, Caldwell} =>
        \E image_index \in _build_image_index(
                             CatalogImageDirs(config, config.catalogs[k].name)) :
          \A object_id \in ImageOnly(k, image_index) :
            Cardinality({ i \in DOMAIN items :
                            items[i] = ImageOnlyItem(object_id, config.catalogs[k].name,
                                                     image_index) }) = 1

\* the catalogs whose metadata file exists but is no JSON, or holds a record
\* that is no object
Failed ==
  { k \in Present :
      \/ metadata[config.catalogs[k].metadata_file].kind = "invalid"
      \/ \E e \in Range(_select_catalog_entries(metadata[config.catalogs[k].metadata_file],
                                                config.catalogs[k].name)) :
           e.meta.kind # "dict" }

\* C13: when the metadata file of one configured catalog exists but cannot be
\* parsed, or one of its records is malformed, load_catalog_items does not
\* raise, and the list it returns holds a record for every metadata key of
\* every other configured catalog.
C13_FailureContained ==
  Failed # {} =>
    /\ pc # "raised"
    /\ pc = "done" =>
         \A k \in Present \ Failed : \A object_id \in MetadataKeys(k) :
           \E i \in DOMAIN items :
             /\ items[i].catalog = config.catalogs[k].name
             /\ items[i].object_id = object_id

\* the catalog whose directories a catalog searches besides its own
SiblingOf(catalog_name) ==
  IF catalog_name = Messier THEN NGC
  ELSE IF catalog_name = NGC THEN Messier
  ELSE <<>>

\* the image directories a list of catalogs configures for a name (the last
\* entry of the name counts)
ConfiguredDirs(catalogs, catalog_name) ==
  LET named == { i \in DOMAIN catalogs : catalogs[i].name = catalog_name }
  IN IF named = {} THEN <<>>
     ELSE catalogs[CHOOSE i \in named : \A j \in named : j <= i].image_dirs

\* the directories searched for a catalog when catalogs are the configured
\* ones: its own, its sibling's, the master directory
SearchedDirs(catalogs, catalog_name) ==
  Dedupe(ConfiguredDirs(catalogs, catalog_name)
           \o ConfiguredDirs(catalogs, SiblingOf(catalog_name))
           \o (IF config.master_image_dir # "" THEN <<config.master_image_dir>> ELSE <<>>))

\* the record lists of one catalog when catalogs are the configured ones
RecordsOf(catalog_cfg, catalogs) ==
  UNION { { CatalogItems(metadata[catalog_cfg.metadata_file], catalog_cfg.name,
                         image_index, id_order) :
              id_order \in Orders(ImageOnlyIds(
                            _select_catalog_entries(metadata[catalog_cfg.metadata_file],
                                                    catalog_cfg.name),
                            catalog_cfg.name, image_index)) } :
          image_index \in _build_image_index(SearchedDirs(catalogs, catalog_cfg.name)) }

\* the lists a load of the catalogs todo returns when catalogs are the
\* configured ones
RECURSIVE Loads(_, _)
Loads(todo, catalogs) ==
  IF todo = <<>> THEN {<<>>}
  ELSE { first \o rest : first \in RecordsOf(Head(todo), catalogs),
                         rest \in Loads(Tail(todo), catalogs) }

\* the configured catalogs whose metadata file exists, in declared order
PresentCatalogs ==
  SelectSeq(config.catalogs, LAMBDA c : metadata[c.metadata_file].kind # "missing")

\* no record of a catalog whose metadata file does not exist
NoRecordOfMissing ==
  \A i \in DOMAIN items : \A k \in DOMAIN config.catalogs :
    config.catalogs[k].name = items[i].catalog => k \in Present

\* only a catalog whose metadata file exists makes the load raise
MissingRaisesNothing ==
  pc = "raised" => loaded + 1 \in Present

\* C14: when a configured catalog's metadata file does not exist, the load
\* returns no record for that catalog and raises no error for it, and the
\* records of the other catalogs are those of a load in which the missing
\* catalog is not loaded but its image directories stay configured (Messier
\* and NGC still search the directories of a sibling whose metadata is
\* missing).
C14_MissingSkipped ==
  /\ NoRecordOfMissing
  /\ MissingRaisesNothing
  /\ pc = "done" => items \in Loads(PresentCatalogs, config.catalogs)

\* C14 witness: NGC is configured without metadata file; the load returned
\* the Messier record M42 with the image of NGC's directory and no NGC record.
C14_Witness ==
  /\ pc = "done"
  /\ config.catalogs = <<MessierCfg, NgcCfg>>
  /\ config.master_image_dir = ""
  /\ metadata["n.json"] = Missing
  /\ \E i \in DOMAIN items :
       /\ items[i].object_id = Id("M", 42)
       /\ \E j \in DOMAIN items[i].image_paths : items[i].image_paths[j].root = "lib/b"
  /\ \A i \in DOMAIN items : items[i].catalog # NGC

\* C14 as stated: the other catalogs' records are those of a load of the
\* configuration without the missing catalog.
C14_Original ==
  /\ NoRecordOfMissing
  /\ MissingRaisesNothing
  /\ pc = "done" => items \in Loads(PresentCatalogs, PresentCatalogs)

\* the catalog an alias of a Messier object is numbered in
CatalogOfId(object_id) ==
  IF HasCatalogForm(object_id, NGC) THEN NGC
  ELSE IF HasCatalogForm(object_id, IC) THEN IC
  ELSE Messier

\* the ids the name of each image file of the catalog directories carries
CarriedIds ==
  [ name \in LoadFileNames |->
      IF Lower(PathSuffix(name)) \in { Lower(e) : e \in Range(image_extensions) }
      THEN _extract_object_ids(Upper(PathStem(name)))
      ELSE <<>> ]

\* an image file whose name carries the id and no other id
CarriesOnly(file, object_id) == CarriedIds[file.name] = <<object_id>>

\* the file lies in an image directory configured for the catalog
InDirsOf(file, catalog_name) ==
  \E d \in Range(ConfiguredDirs(config.catalogs, catalog_name)) : file.dir = RealDir(d)

\* every returned record of the catalog and id lists the file
ListedIn(file, catalog_name, object_id) ==
  \A i \in DOMAIN items :
    (items[i].catalog = catalog_name /\ Upper(items[i].object_id) = object_id) =>
      \E j \in DOMAIN items[i].image_paths :
        /\ items[i].image_paths[j].name = file.name
        /\ RealDir(items[i].image_paths[j].root) = file.dir

\* an image named for one number of the pair is listed by the records of both
Discoverable(m, x) ==
  \A file \in files :
    /\ (CarriesOnly(file, x) /\ InDirsOf(file, CatalogOfId(x))) => ListedIn(file, Messier, m)
    /\ (CarriesOnly(file, m) /\ InDirsOf(file, Messier)) => ListedIn(file, CatalogOfId(x), x)

\* C17: after a load, for every pair (m, x) of the alias table whose x is an
\* NGC number, an image whose name carries only x and lies in an image
\* directory of NGC is among the image paths of every returned Messier record
\* m, and an image whose name carries only m and lies in an image directory of
\* Messier is among the image paths of every returned NGC record x.
C17_CrossListed ==
  pc = "done" =>
    \A q \in MessierPairs : CatalogOfId(q[2]) = NGC => Discoverable(q[1], q[2])

\* C17 witness: Messier and NGC are loaded without master directory; the
\* record M42 lists NGC1976.png of NGC's directory and the record NGC1976
\* lists a_M42.jpg of Messier's directory.
C17_Witness ==
  /\ pc = "done"
  /\ config.catalogs = <<MessierCfg, NgcCfg>>
  /\ config.master_image_dir = ""
  /\ \E i \in DOMAIN items :
       /\ items[i].catalog = Messier /\ items[i].object_id = Id("M", 42)
       /\ \E j \in DOMAIN items[i].image_paths : items[i].image_paths[j].root = "lib/b"
  /\ \E i \in DOMAIN items :
       /\ items[i].catalog = NGC /\ items[i].object_id = Id("NGC", 1976)
       /\ \E j \in DOMAIN items[i].image_paths : items[i].image_paths[j].root = "lib/a"

\* C17 as stated: every pair of the alias table, the IC numbers included.
C17_Original ==
  pc = "done" => \A q \in MessierPairs : Discoverable(q[1], q[2])

\* the names of the configured catalogs are pairwise distinct
DistinctNames ==
  \A i, j \in DOMAIN config.catalogs :
    config.catalogs[i].name = config.catalogs[j].name => i = j

\* no two records have the same (catalog, object_id)
UniqueKeys ==
  \A i, j \in DOMAIN items :
    (items[i].catalog = items[j].catalog /\ items[i].object_id = items[j].object_id)
      => i = j

\* the first place of a catalog name in the configuration
DeclaredAt(catalog_name) ==
  CHOOSE k \in DOMAIN config.catalogs :
    /\ config.catalogs[k].name = catalog_name
    /\ \A l \in DOMAIN config.catalogs : config.catalogs[l].name = catalog_name => k <= l

\* the records are grouped by catalog, the catalogs in declared order
GroupedInOrder ==
  \A i, j \in DOMAIN items :
    i < j => DeclaredAt(items[i].catalog) <= DeclaredAt(items[j].catalog)

RecordMetas ==
  { [kind |-> "dict", thumbnail |-> None, ra_hours |-> ra_hours, ra |-> ra,
     dec_deg |-> dec_deg, dec |-> dec, best_months |-> best_months, notes |-> None] :
      ra_hours \in { None, Num(0), Num(5), Str(<<"1","8",":","3","1",":","4","8">>),
                     Str(<<"a","b","c">>), Str(<<"7",".","6","4","6","5","7","5","4">>) },
      ra \in { None, Num(0), Str(<<"5"," ","3","0">>) },
      dec_deg \in { None, Num(0), Num(-19), Num(-12), Str(<<"+","4","1",":","1","6">>),
                    Str(<<"i","n","f">>) },
      dec \in { None, Str(<<"-","1","9"," ","0","7"," ","0","0">>) },
      best_months \in { None, Str(<<>>), Str(<<"N","o","v","D","e","c","J","a","n">>),
                        Str(<<"w","i","n","t","e","r">>) } }

\* observer.get("latitude")
Latitudes == { None, Num(0), Num(50), Num(-35), Num(-12) }

InitRecord ==
  /\ files \in SUBSET { [dir |-> "lib/a", name |-> <<"a","_","M","4","2",".","j","p","g">>] }
  /\ \E latitude \in Latitudes :
       config = [catalogs |-> <<MessierCfg>>,
                 master_image_dir |-> "",
                 observer |-> [latitude |-> latitude, longitude |-> None]]
  /\ \E meta \in RecordMetas :
       metadata = [f \in {"m.json", "n.json", "i.json"} |->
                     IF f = "m.json"
                     THEN JsonDict("utf-8", <<Section(Messier, <<Entry(Id("M", 42), meta)>>)>>)
                     ELSE Missing]
  /\ LoadStart

SpecRecord == InitRecord /\ [][NextLoad]_vars

\* the value the metadata supplies under the first key, or else under the
\* second
Supplied(first, second) == IF first # None THEN first ELSE second

\* the metadata of the record a load returned
MetaOf(item) ==
  LET entries == _select_catalog_entries(metadata["m.json"], item.catalog)
  IN entries[CHOOSE i \in DOMAIN entries : entries[i].object_id = item.object_id].meta

\* C15: the best_months of a metadata record is the metadata's best_months,
\* hemisphere-adjusted, when that is non-empty; otherwise, when the metadata
\* supplies an RA and a Dec (a number, 0 included, or a parseable string,
\* under ra_hours or else ra, dec_deg or else dec) and the observer latitude is
\* known, ra_hours and dec_deg are those values and best_months is the value
\* of _compute_best_months; otherwise best_months is empty.
C15_BestMonths ==
  pc = "done" =>
    \A i \in DOMAIN items :
      LET meta == MetaOf(items[i])
          latitude == config.observer.latitude
          ra_hours == _parse_ra(Supplied(meta.ra_hours, meta.ra))
          dec_deg == _parse_dec(Supplied(meta.dec_deg, meta.dec))
      IN IF Truthy(meta.best_months)
         THEN items[i].best_months = _adjust_best_months(meta.best_months, latitude)
         ELSE IF ra_hours.known /\ dec_deg.known /\ latitude # None
         THEN /\ items[i].ra_hours = ra_hours
              /\ items[i].dec_deg = dec_deg
              /\ items[i].best_months =
                   Str(_compute_best_months(ra_hours.value, dec_deg.value,
                                            <<latitude.num, 1>>, <<0, 1>>).value)
         ELSE ~Truthy(items[i].best_months)

\* a text with a character that no coordinate has
Malformed(value) ==
  /\ value.type = "str"
  /\ \E i \in DOMAIN value.str :
       ~IsDigit(value.str[i]) /\ value.str[i] \notin {"+", "-", ".", ":", " "}

\* the metadata has a malformed RA or Dec text
MalformedCoordinate(meta) ==
  \/ Malformed(Supplied(meta.ra_hours, meta.ra))
  \/ Malformed(Supplied(meta.dec_deg, meta.dec))

\* C24: a load of a metadata file with a malformed RA or Dec text does not
\* raise, and the record of such an entry has an unknown coordinate for the
\* malformed text and, when the metadata has no best_months, an empty
\* best_months.
C24_MalformedNeverRaises ==
  LET entries == _select_catalog_entries(metadata["m.json"], Messier)
  IN /\ (\E k \in DOMAIN entries : MalformedCoordinate(entries[k].meta)) => pc # "raised"
     /\ pc = "done" =>
          \A i \in DOMAIN items :
            LET meta == MetaOf(items[i])
            IN /\ Malformed(Supplied(meta.ra_hours, meta.ra)) => ~items[i].ra_hours.known
               /\ Malformed(Supplied(meta.dec_deg, meta.dec)) => ~items[i].dec_deg.known
               /\ (MalformedCoordinate(meta) /\ ~Truthy(meta.best_months))
                    => ~Truthy(items[i].best_months)

(***************************************************************************)
(* save_note, save_image_note and save_thumbnail of app/catalog.py.        *)
(*                                                                         *)
(* The parsed metadata file is a function catalog name -> object id ->     *)
(* entry; an entry is [notes, thumbnail, image_notes], each absent or      *)
(* present.  Two calls run on the same file; a call loads the file, opens  *)
(* it for writing (which truncates it) and dumps its data.  A call records *)
(* in "after" the calls that had returned when it began.                   *)
(***************************************************************************)
Absent == [present |-> FALSE, value |-> <<>>]
Given(value) == [present |-> TRUE, value |-> value]

\* a dict without key
EmptyDict == [k \in {} |-> Absent]

\* dict[key] = value
With(dict, key, value) ==
  [k \in DOMAIN dict \cup {key} |-> IF k = key THEN value ELSE dict[k]]

\* dict.pop(key, None)
Without(dict, key) == [k \in DOMAIN dict \ {key} |-> dict[k]]

\* entry["image_notes"]: absent, a dict of notes by image name, or no dict
NoImageNotes == [present |-> FALSE, is_dict |-> FALSE, notes |-> EmptyDict]
ImageNotes(notes) == [present |-> TRUE, is_dict |-> TRUE, notes |-> notes]
BadImageNotes == [present |-> TRUE, is_dict |-> FALSE, notes |-> EmptyDict]

\* catalog.setdefault(object_id, {}) of a new object
EmptyEntry == [notes |-> Absent, thumbnail |-> Absent, image_notes |-> NoImageNotes]

\* data.setdefault(catalog_name, {}).setdefault(object_id, {})
SetDefaults(data, catalog_name, object_id) ==
  LET catalog == IF catalog_name \in DOMAIN data THEN data[catalog_name] ELSE EmptyDict
  IN With(data, catalog_name,
          IF object_id \in DOMAIN catalog THEN catalog
          ELSE With(catalog, object_id, EmptyEntry))

\* the data with the entry of the object replaced
WithEntry(data, catalog_name, object_id, entry) ==
  With(data, catalog_name, With(data[catalog_name], object_id, entry))

\* save_note, lines 553-559
NoteSaved(data, op) ==
  LET defaults == SetDefaults(data, op.catalog_name, op.object_id)
      entry == defaults[op.catalog_name][op.object_id]
  IN WithEntry(defaults, op.catalog_name, op.object_id,
               [entry EXCEPT !.notes = IF Strip(op.notes) # <<>> THEN Given(op.notes)
                                       ELSE Absent])

\* save_image_note, lines 573-583
ImageNoteSaved(data, op) ==
  LET defaults == SetDefaults(data, op.catalog_name, op.object_id)
      entry == defaults[op.catalog_name][op.object_id]
      image_notes == IF entry.image_notes.present /\ entry.image_notes.is_dict
                     THEN entry.image_notes.notes ELSE EmptyDict
  IN WithEntry(defaults, op.catalog_name, op.object_id,
               [entry EXCEPT !.image_notes =
                  ImageNotes(IF Strip(op.notes) # <<>>
                             THEN With(image_notes, op.image_name, op.notes)
                             ELSE Without(image_notes, op.image_name))])

\* save_thumbnail, lines 591-594
ThumbnailSaved(data, op) ==
  LET defaults == SetDefaults(data, op.catalog_name, op.object_id)
      entry == defaults[op.catalog_name][op.object_id]
  IN WithEntry(defaults, op.catalog_name, op.object_id,
               [entry EXCEPT !.thumbnail = Given(op.thumbnail_name)])

\* a save that forgets the data it loaded
Modified_Unmerged(data, op) ==
  IF op.name = "save_note" THEN NoteSaved(EmptyDict, op)
  ELSE IF op.name = "save_image_note" THEN ImageNoteSaved(EmptyDict, op)
  ELSE ThumbnailSaved(EmptyDict, op)

\* the data a call dumps: the data it loaded with its change
Modified(data, op) ==
  IF op.name = "save_note" THEN NoteSaved(data, op)
  ELSE IF op.name = "save_image_note" THEN ImageNoteSaved(data, op)
  ELSE ThumbnailSaved(data, op)

\* the calls: arguments of save_note, save_image_note and save_thumbnail
SaveObjects == { Id("M", 42), Id("M", 31) }
SaveImages == { <<"a",".","j","p","g">>, <<"b",".","j","p","g">> }
SaveOp(name, object_id, image_name, notes, thumbnail_name) ==
  [name |-> name, catalog_name |-> Messier, object_id |-> object_id,
   image_name |-> image_name, notes |-> notes, thumbnail_name |-> thumbnail_name]
SaveOps ==
  { SaveOp("save_note", o, <<>>, n, <<>>) :
      o \in SaveObjects, n \in { <<" ">>, <<"n","1">>, <<"n","2">> } }
  \cup { SaveOp("save_image_note", o, i, n, <<>>) :
           o \in SaveObjects, i \in SaveImages, n \in { <<" ">>, <<"i","1">> } }
  \cup { SaveOp("save_thumbnail", o, <<>>, <<>>, i) : o \in SaveObjects, i \in SaveImages }

\* the metadata file before the calls
SaveFiles ==
  { [kind |-> "missing", data |-> EmptyDict],
    [kind |-> "dict", data |-> EmptyDict],
    [kind |-> "dict",
     data |-> With(EmptyDict, Messier,
                With(EmptyDict, Id("M", 42),
                  [notes |-> Given(<<"o","l","d">>), thumbnail |-> Absent,
                   image_notes |-> BadImageNotes]))],
    [kind |-> "dict",
     data |-> With(EmptyDict, Messier,
                With(EmptyDict, Id("M", 42),
                  [notes |-> Absent, thumbnail |-> Given(<<"a",".","j","p","g">>),
                   image_notes |-> ImageNotes(With(EmptyDict, <<"a",".","j","p","g">>,
                                                   <<"o","l","d">>))]))] }

InitSave ==
  /\ metadata \in [{"m.json"} -> SaveFiles]
  /\ writers \in [{1, 2} -> { [op |-> op, pc |-> "start", data |-> EmptyDict, after |-> {}] :
                               op \in SaveOps }]
  /\ items = <<>>
  /\ loaded = 0
  /\ pc = "save"
  /\ files = {} /\ config = <<>>
  /\ ExtractIdle
  /\ ExpandIdle
  /\ image_dirs = <<>> /\ walked = 0 /\ index = <<>> /\ seen = <<>>
  /\ sha256 = <<>> /\ scanned = 0 /\ groups = <<>> /\ report = <<>> /\ payload = <<>>
  /\ RouterIdle
  /\ ThumbIdle
  /\ MonthIdle
  /\ ComputeIdle
  /\ NoteIdle

\* the calls that have returned or raised
Ended == { v \in DOMAIN writers : writers[v].pc \in {"done", "raised"} }

\* what a step of a call leaves alone
SaveUnchanged ==
  /\ UNCHANGED <<pc, files, config, items, loaded>>
  /\ UNCHANGED <<extractVars, expandVars, image_dirs, walked, index, seen,
                 sha256, scanned, groups, report, payload, routerVars, thumbVars, monthVars, computeVars, noteVars>>

\* "if not metadata_path.exists(): return; data = _load_catalog_metadata(...)"
Load(w) ==
  /\ pc = "save"
  /\ writers[w].pc = "start"
  /\ writers' = [writers EXCEPT ![w] =
       [@ EXCEPT !.pc = IF metadata["m.json"].kind = "missing" THEN "done"
                        ELSE IF metadata["m.json"].kind = "invalid" THEN "raised"
                        ELSE "loaded",
                 !.data = metadata["m.json"].data,
                 !.after = Ended]]
  /\ UNCHANGED metadata
  /\ SaveUnchanged

\* metadata_path.open("w"): the file is empty until the dump
Open(w) ==
  /\ pc = "save"
  /\ writers[w].pc = "loaded"
  /\ writers' = [writers EXCEPT ![w].pc = "opened"]
  /\ metadata' = [metadata EXCEPT !["m.json"] = [kind |-> "invalid", data |-> EmptyDict]]
  /\ SaveUnchanged

\* json.dump(data, handle)
Dump(w) ==
  /\ pc = "save"
  /\ writers[w].pc = "opened"
  /\ writers' = [writers EXCEPT ![w].pc = "done"]
  /\ metadata' = [metadata EXCEPT !["m.json"] =
                    [kind |-> "dict", data |-> Modified(writers[w].data, writers[w].op)]]
  /\ SaveUnchanged

NextSave == \E w \in {1, 2} : Load(w) \/ Open(w) \/ Dump(w)

SpecSave == InitSave /\ [][NextSave]_vars

\* the file holds the update of a call
Holds(op) ==
  /\ metadata["m.json"].kind = "dict"
  /\ op.catalog_name \in DOMAIN metadata["m.json"].data
  /\ op.object_id \in DOMAIN metadata["m.json"].data[op.catalog_name]
  /\ LET entry == metadata["m.json"].data[op.catalog_name][op.object_id]
     IN IF op.name = "save_note"
        THEN IF Strip(op.notes) # <<>> THEN entry.notes = Given(op.notes)
             ELSE ~entry.notes.present
        ELSE IF op.name = "save_image_note"
        THEN /\ entry.image_notes.present
             /\ entry.image_notes.is_dict
             /\ IF Strip(op.notes) # <<>>
                THEN /\ op.image_name \in DOMAIN entry.image_notes.notes
                     /\ entry.image_notes.notes[op.image_name] = op.notes
                ELSE op.image_name \notin DOMAIN entry.image_notes.notes
        ELSE entry.thumbnail = Given(op.thumbnail_name)

\* the two calls change the same value of the file
SameTarget(op, other) ==
  /\ op.name = other.name
  /\ op.object_id = other.object_id
  /\ op.image_name = other.image_name

\* both calls have returned and wrote the file
BothSaved ==
  /\ \A w \in DOMAIN writers : writers[w].pc = "done"
  /\ metadata["m.json"].kind # "missing"

\* call w began after call v had returned
RanAfter(w, v) == v \in writers[w].after

\* C19: each save rewrites the whole file from the data it loaded, so after
\* two saves of the same file the file is the dump of one of them and holds
\* that call's update; when the calls ran one after the other the file holds
\* the update of the later call and, unless both change the same value, the
\* update of the earlier call too.  (When they overlap the update of one can
\* be lost: the witness.)
C19_SavesNotSerialized ==
  BothSaved =>
    /\ \E w \in DOMAIN writers :
         /\ metadata["m.json"].data = Modified(writers[w].data, writers[w].op)
         /\ Holds(writers[w].op)
    /\ \A w, v \in DOMAIN writers :
         RanAfter(w, v) =>
           /\ Holds(writers[w].op)
           /\ ~SameTarget(writers[w].op, writers[v].op) => Holds(writers[v].op)

\* C19 witness: a note and a thumbnail of M42 were saved by overlapping calls,
\* both returned, and the file lacks the note.
C19_Witness ==
  /\ BothSaved
  /\ ~RanAfter(1, 2) /\ ~RanAfter(2, 1)
  /\ writers[1].op = SaveOp("save_note", Id("M", 42), <<>>, <<"n","1">>, <<>>)
  /\ writers[2].op = SaveOp("save_thumbnail", Id("M", 42), <<>>, <<>>, <<"b",".","j","p","g">>)
  /\ Holds(writers[2].op)
  /\ ~Holds(writers[1].op)

(***************************************************************************)
(* Properties of _build_image_index over the enumeration orders.           *)
(***************************************************************************)
\* C21: the index _build_image_index returns is the same for every order in
\* which the walk enumerates the directories and files: every other run over
\* the same image_dirs and files returns the same ids with the same paths in
\* the same order.
C21_OrderIndependent ==
  pc = "done" => \A other \in _build_image_index(image_dirs) : other = index

(***************************************************************************)
(* The extractors of the scripts against the extractor of app/catalog.py.  *)
(***************************************************************************)
\* the ids of solar-system objects
SolarIds == { Upper(SOLAR_OBJECTS[o]) : o \in DOMAIN SOLAR_OBJECTS }

\* the catalog ids the core extractor returns for the upper-cased stem, the
\* form in which the indexer passes the stem
CoreCatalogIds(s) == Range(_extract_object_ids(Upper(s))) \ SolarIds

\* C22: for every stem the duplicate detector's and the master router's
\* _extract_object_ids return the same set of ids, and that set is the set of
\* catalog ids (the solar-system ids left out) the core _extract_object_ids
\* returns for the upper-cased stem.
C22_ScriptsExtractCatalogIds ==
  pc = "done" =>
    /\ Range(Dup_extract_object_ids(stem)) = Range(Sort_extract_object_ids(stem))
    /\ Range(Sort_extract_object_ids(stem)) = CoreCatalogIds(stem)

\* C22 witness: for the stem "m31" the core extractor returned nothing and the
\* scripts return M31.
C22_Witness ==
  /\ pc = "done"
  /\ stem = <<"m","3","1">>
  /\ ids = <<>>
  /\ Dup_extract_object_ids(stem) = <<Id("M", 31)>>
  /\ Sort_extract_object_ids(stem) = <<Id("M", 31)>>

\* C22 as stated: the scripts return the set of ids the core extractor returns
\* for the stem.
C22_Original ==
  pc = "done" =>
    /\ Range(Dup_extract_object_ids(stem)) = Range(ids)
    /\ Range(Sort_extract_object_ids(stem)) = Range(ids)

(***************************************************************************)
(* _adjust_best_months of app/catalog.py, called on a supplied string and  *)
(* then on its own result.                                                 *)
(***************************************************************************)
\* number of pieces a best_months string is assembled from
MaxChunks == 3

\* the pieces: month codes, a separator, a letter, a lower-case code, a
\* truncated code
MonthPieces ==
  { <<"J","a","n">>, <<"J","u","n">>, <<"J","u","l">>, <<"D","e","c">>,
    <<" ">>, <<"x">>, <<"j","a","n">>, <<"J","a">> }

RECURSIVE MonthTexts(_)
MonthTexts(n) ==
  IF n = 0 THEN { <<>> }
  ELSE MonthTexts(n - 1) \cup { p \o t : p \in MonthPieces, t \in MonthTexts(n - 1) }

InitMonths ==
  /\ \E text \in MonthTexts(MaxChunks) : \E value \in { None, Str(text) } :
       \E lat \in { None, Num(0), Num(50), Num(-35) } :
         month_args = [best_months |-> value, latitude |-> lat]
  /\ adjusted = None
  /\ readjusted = None
  /\ pc = "input"
  /\ ExtractIdle
  /\ ExpandIdle
  /\ IndexIdle
  /\ DupIdle
  /\ RouterIdle
  /\ LoadIdle
  /\ ThumbIdle
  /\ SaveIdle
  /\ ComputeIdle
  /\ NoteIdle

Adjust ==
  /\ pc = "input"
  /\ adjusted' = _adjust_best_months(month_args.best_months, month_args.latitude)
  /\ pc' = "adjusted"
  /\ UNCHANGED <<month_args, readjusted>>
  /\ UNCHANGED <<extractVars, expandVars, indexVars, dupVars, routerVars,
                 loadVars, thumbVars, saveVars, computeVars, noteVars>>

AdjustAgain ==
  /\ pc = "adjusted"
  /\ readjusted' = _adjust_best_months(adjusted, month_args.latitude)
  /\ pc' = "done"
  /\ UNCHANGED <<month_args, adjusted>>
  /\ UNCHANGED <<extractVars, expandVars, indexVars, dupVars, routerVars,
                 loadVars, thumbVars, saveVars, computeVars, noteVars>>

NextMonths == Adjust \/ AdjustAgain

SpecMonths == InitMonths /\ [][NextMonths]_vars

IsMonth(code) == \E i \in DOMAIN month_map : month_map[i] = code

\* the month six positions later, modulo 12
SixLater(code) == month_map[((IndexOf(month_map, code) + 5) % 12) + 1]

\* the month codes at the offsets 0, 3, 6, ... of a text, in order
AlignedCodes(text) ==
  LET chunk(k) == SubSeq(text, 3 * k - 2, IF 3 * k < Len(text) THEN 3 * k ELSE Len(text))
  IN SelectSeq([k \in 1..((Len(text) + 2) \div 3) |-> chunk(k)], IsMonth)

\* the month codes that occur in a text, wherever they start, in order
RECURSIVE Codes(_)
Codes(text) ==
  IF Len(text) < 3 THEN <<>>
  ELSE IF IsMonth(SubSeq(text, 1, 3))
  THEN <<SubSeq(text, 1, 3)>> \o Codes(SubSeq(text, 4, Len(text)))
  ELSE Codes(Tail(text))

RECURSIVE JoinCodes(_)
JoinCodes(codes) == IF codes = <<>> THEN <<>> ELSE Head(codes) \o JoinCodes(Tail(codes))

\* a text made only of month codes
OnlyCodes(text) == JoinCodes(AlignedCodes(text)) = text

Southern == month_args.latitude # None /\ month_args.latitude.num < 0

\* C23: _adjust_best_months returns the supplied best_months unchanged when
\* it is empty or missing, when the latitude is unknown or >= 0, and when no
\* chunk at an offset that is a multiple of three is a month code; otherwise
\* (latitude < 0) it returns the month codes found at those offsets, each
\* replaced by the month six positions later, in order, and drops every other
\* chunk.  Applying it twice to a string made only of month codes gives back
\* the string.
C23_AdjustAlignedCodes ==
  LET given == month_args.best_months
  IN /\ pc \in {"adjusted", "done"} =>
          IF Truthy(given) /\ Southern /\ AlignedCodes(given.str) # <<>>
          THEN adjusted = Str(JoinCodes([k \in DOMAIN AlignedCodes(given.str) |->
                                           SixLater(AlignedCodes(given.str)[k])]))
          ELSE adjusted = given
     /\ (pc = "done" /\ Truthy(given) /\ OnlyCodes(given.str)) => readjusted = given

\* C23 witness: at latitude -35 "Jan Jun" became "Jul", and "JanDec" became
\* "JulJun" and then "JanDec" again.
C23_Witness ==
  /\ pc = "done"
  /\ Southern
  /\ \/ /\ month_args.best_months = Str(<<"J","a","n"," ","J","u","n">>)
        /\ adjusted = Str(<<"J","u","l">>)
     \/ /\ month_args.best_months = Str(<<"J","a","n","D","e","c">>)
        /\ adjusted = Str(<<"J","u","l","J","u","n">>)
        /\ readjusted = month_args.best_months

\* C23 as stated: at a latitude < 0 every month code of the string is replaced
\* by the month six positions later, the number and order of the codes kept.
C23_Original ==
  LET given == month_args.best_months
  IN /\ (pc \in {"adjusted", "done"} /\ ~Southern) => adjusted = given
     /\ (pc \in {"adjusted", "done"} /\ Southern /\ given.type = "str") =>
          Codes(adjusted.str) = [k \in DOMAIN Codes(given.str) |-> SixLater(Codes(given.str)[k])]
     /\ (pc = "done" /\ Truthy(given) /\ OnlyCodes(given.str)) => readjusted = given

(***************************************************************************)
(* _compute_best_months of app/catalog.py, called on the right ascensions, *)
(* declinations and latitudes of the altitude table.                       *)
(***************************************************************************)
ComputeInputs ==
  { [ra_hours |-> _altitude_deg_values[i][1][1], dec_deg |-> _altitude_deg_values[i][1][2],
     lat_deg |-> _altitude_deg_values[i][1][3], lon_deg |-> _altitude_deg_values[i][1][4]] :
      i \in DOMAIN _altitude_deg_values }

InitCompute ==
  /\ compute_args \in ComputeInputs
  /\ computed = [raised |-> FALSE, value |-> <<>>]
  /\ pc = "input"
  /\ ExtractIdle
  /\ ExpandIdle
  /\ IndexIdle
  /\ DupIdle
  /\ RouterIdle
  /\ LoadIdle
  /\ ThumbIdle
  /\ SaveIdle
  /\ MonthIdle
  /\ NoteIdle

Compute ==
  /\ pc = "input"
  /\ computed' = _compute_best_months(compute_args.ra_hours, compute_args.dec_deg,
                                      compute_args.lat_deg, compute_args.lon_deg)
  /\ pc' = "done"
  /\ UNCHANGED compute_args
  /\ UNCHANGED <<extractVars, expandVars, indexVars, dupVars, routerVars,
                 loadVars, thumbVars, saveVars, monthVars, noteVars>>

NextCompute == Compute

SpecCompute == InitCompute /\ [][NextCompute]_vars

\* the altitudes of the twelve months for the arguments of the call
AltitudesOf(args) ==
  _altitude_deg_values[
    CHOOSE i \in DOMAIN _altitude_deg_values :
      _altitude_deg_values[i][1] = <<args.ra_hours, args.dec_deg, args.lat_deg, args.lon_deg>>][2]

\* C27: _compute_best_months returns, and what it returns is the month codes,
\* in calendar order, of exactly the months in which the altitude at 00:00 UTC
\* on the 15th is at least 25 degrees; for ra_hours = 0, dec_deg = 89,
\* lat_deg = 45, lon_deg = 0 these are all twelve months.
C27_MonthsAtLeast25 ==
  pc = "done" =>
    /\ ~computed.raised
    /\ computed.value =
         JoinCodes(SelectSeq(month_names,
                             LAMBDA code : AltitudesOf(compute_args)[IndexOf(month_names, code)]
                                             >= MinAltitude))
    /\ (compute_args = [ra_hours |-> <<0, 1>>, dec_deg |-> <<89, 1>>,
                        lat_deg |-> <<45, 1>>, lon_deg |-> <<0, 1>>])
         => computed.value = JoinCodes(month_names)

(***************************************************************************)
(* The order of the ids _extract_object_ids returns.                       *)
(***************************************************************************)
NoDuplicates(list) == \A i, j \in DOMAIN list : i # j => list[i] # list[j]

\* the place of a solar-system id in SOLAR_OBJECTS
SolarRank(id) == CHOOSE o \in DOMAIN SOLAR_OBJECTS : Upper(SOLAR_OBJECTS[o]) = id

\* the first position of the stem at which a token of a catalog id starts
CatalogFirstAt(s, id) ==
  LET at == { t.at : t \in { u \in Tokens(s) : Canonical(u) = id /\ Significant(u) <= 5 } }
  IN CHOOSE p \in at : \A q \in at : p <= q

\* the first position of the stem at which an alias of a solar-system id
\* occurs
SolarFirstAt(s, id) ==
  LET lower_stem == Lower(s)
      occurs(alias, i) ==
        /\ StartsAt(lower_stem, i, alias)
        /\ Len(alias) <= 2 =>
             /\ ~(i > 1 /\ IsLowerAlnum(lower_stem[i - 1]))
             /\ ~(i + Len(alias) <= Len(lower_stem) /\ IsLowerAlnum(lower_stem[i + Len(alias)]))
      at == { i \in DOMAIN s : \E alias \in SolarAliasTable[SolarRank(id)] : occurs(alias, i) }
  IN CHOOSE p \in at : \A q \in at : p <= q

FirstAt(s, id) == IF id \in SolarIds THEN SolarFirstAt(s, id) ELSE CatalogFirstAt(s, id)

\* C26: the list _extract_object_ids returns has no duplicates; the
\* solar-system ids come first, in the order of SOLAR_OBJECTS, and the catalog
\* ids follow, an id whose first occurrence lies earlier in the stem before an
\* id whose first occurrence lies later; "M31_M_31_M0031" yields M31 once.
C26_SolarFirstThenFirstSeen ==
  pc = "done" =>
    /\ NoDuplicates(ids)
    /\ \A i, j \in DOMAIN ids : i < j =>
         IF ids[i] \in SolarIds
         THEN ids[j] \in SolarIds => SolarRank(ids[i]) < SolarRank(ids[j])
         ELSE /\ ids[j] \notin SolarIds
              /\ CatalogFirstAt(stem, ids[i]) < CatalogFirstAt(stem, ids[j])
    /\ stem = <<"M","3","1","_","M","_","3","1","_","M","0","0","3","1">>
         => ids = << <<"M","3","1">> >>

\* C26 witness: "M31_IO" has been extracted as IO followed by M31.
C26_Witness ==
  /\ pc = "done"
  /\ stem = <<"M","3","1","_","I","O">>
  /\ ids = << <<"I","O">>, <<"M","3","1">> >>

\* C26 as stated: an id whose first occurrence lies earlier in the stem
\* precedes an id whose first occurrence lies later, for catalog ids and
\* solar-system ids alike.
C26_Original ==
  pc = "done" =>
    /\ NoDuplicates(ids)
    /\ \A i, j \in DOMAIN ids : i < j => FirstAt(stem, ids[i]) < FirstAt(stem, ids[j])
    /\ stem = <<"M","3","1","_","M","_","3","1","_","M","0","0","3","1">>
         => ids = << <<"M","3","1">> >>

(***************************************************************************)
(* The reports of the duplicate detector.                                  *)
(***************************************************************************)
\* the groups the text report shows, in order: the catalog and the digest of
\* each pair of "Catalog" and "SHA-256" lines
ReportGroups(lines) ==
  LET at == SelectSeq([i \in DOMAIN lines |-> i], LAMBDA i : lines[i].label = "Catalog: ")
  IN [k \in DOMAIN at |-> <<lines[at[k]].text, lines[at[k] + 1].text>>]

\* the groups of a JSON report, in order: catalog and digest
PayloadGroups(gs) == [k \in DOMAIN gs |-> <<gs[k].catalog, gs[k].hash>>]

\* g may stand before h: catalog ascending, then number of files descending,
\* then digest ascending
InKeyOrder(g, h) ==
  \/ StrLess(g.catalog, h.catalog)
  \/ /\ g.catalog = h.catalog
     /\ \/ Len(g.files) > Len(h.files)
        \/ Len(g.files) = Len(h.files) /\ ~StrLess(h.hash, g.hash)

\* the lists of groups a run can collect from the catalogs k, k + 1, ...,
\* one for each order in which the files can be yielded
RECURSIVE RunsFrom(_)
RunsFrom(k) ==
  IF k > Len(_catalog_dirs(config)) THEN { <<>> }
  ELSE { GroupsOf(_catalog_dirs(config)[k].name, HashAll(<<>>, order)) \o rest :
           order \in IterOrders(_catalog_dirs(config)[k].image_dirs),
           rest \in RunsFrom(k + 1) }

PhysicalFile(path) == [dir |-> RealDir(path.root), name |-> path.name]

\* C30: every reported group lists no path twice, consists of at least two
\* distinct files on disk, and all its files lie under the image directories
\* of the group's catalog.
C30_DistinctFilesOfOneCatalog ==
  \A i \in DOMAIN groups :
    LET listed_ == [k \in DOMAIN groups[i].files |-> groups[i].files[k].path]
    IN /\ \A a, b \in DOMAIN listed_ : a # b => listed_[a] # listed_[b]
       /\ Cardinality({ PhysicalFile(listed_[k]) : k \in DOMAIN listed_ }) >= 2
       /\ \A c \in ScannedCatalogs : c.name = groups[i].catalog =>
            \A k \in DOMAIN listed_ : PhysicalFile(listed_[k]) \in FilesUnder(c.image_dirs)

\* the images that were under the intake directory when the run started: the
\* content of a file tells where it was
IntakeImagesAtStart ==
  { f \in files : sha256[f][1] \in IntakeDirs /\ IsImageName(sha256[f][2]) }

\* C29: when a run that walks the intake directory is over, moved + skipped is
\* the number of images that were under the intake directory when it started
\* (each was moved once or skipped once), and no step of the run changes the
\* number of files on disk.
C29_HandledOnce ==
  /\ []((pc = "done" /\ RunWalks) => moved + skipped = Cardinality(IntakeImagesAtStart))
  /\ [][Cardinality(files') = Cardinality(files)]_vars

(***************************************************************************)
(* save_note of app/catalog.py between two calls of load_catalog_items, on *)
(* the metadata file as the loader reads it.                               *)
(***************************************************************************)
\* "entry['notes'] = notes" when notes.strip() is not empty, else
\* "entry.pop('notes', None)"
NotesSet(meta, notes) ==
  [meta EXCEPT !.notes = IF Strip(notes) # <<>> THEN Str(notes) ELSE None]

\* data.setdefault(key, {}): the object with the key added at the end when it
\* has no such key
SetDefaultSection(data, key) ==
  IF \E i \in DOMAIN data : data[i].key = key THEN data
  ELSE Append(data, Section(key, <<>>))

\* catalog.setdefault(object_id, {})
SetDefaultEntry(entries, object_id) ==
  IF \E i \in DOMAIN entries : entries[i].object_id = object_id THEN entries
  ELSE Append(entries, Entry(object_id, EmptyMeta))

\* save_note(metadata_path, catalog_name, object_id, notes): whether it raised
\* and the file it leaves.  Without file it returns at once; a file that is
\* no JSON object, a value under catalog_name that is no object and an entry
\* that is no object make it raise before the file is opened for writing.
save_note(content, catalog_name, object_id, notes) ==
  IF content.kind = "missing" THEN [raised |-> FALSE, content |-> content]
  ELSE IF content.kind # "dict" THEN [raised |-> TRUE, content |-> content]
  ELSE LET data == SetDefaultSection(content.data, catalog_name)
           s == CHOOSE i \in DOMAIN data : data[i].key = catalog_name
           entries == SetDefaultEntry(data[s].entries, object_id)
           e == CHOOSE j \in DOMAIN entries : entries[j].object_id = object_id
       IN IF ~data[s].is_dict \/ entries[e].meta.kind # "dict"
          THEN [raised |-> TRUE, content |-> content]
          ELSE [raised |-> FALSE,
                content |->
                  JsonDict("utf-8",
                           [data EXCEPT ![s] =
                              [@ EXCEPT !.entries =
                                 [entries EXCEPT ![e] =
                                    [@ EXCEPT !.meta = NotesSet(@, notes)]]]])]

\* the top-level keys under which the loader finds the entries of Messier:
\* the exact name, the name in another case, and a single top-level key
SectionKeys == { Messier, Lower(Messier), <<"O","b","j","e","c","t","s">> }

\* the metadata of M42 in the file
NoteMetas ==
  { EmptyMeta,
    [EmptyMeta EXCEPT !.notes = Str(<<"o","l","d">>)],
    [EmptyMeta EXCEPT !.notes = Str(<<"M","U+008E","c","h","a","i","n">>)],
    [EmptyMeta EXCEPT !.best_months = Str(<<"N","o","v","D","e","c","J","a","n">>)],
    [EmptyMeta EXCEPT !.thumbnail = Str(<<"a","_","M","4","2",".","j","p","g">>)] }

\* the files save_note is called on
NoteContents ==
  { Missing }
    \cup { JsonDict("utf-8", <<Section(key, <<Entry(Id("M", 42), meta)>>)>>) :
             key \in SectionKeys, meta \in NoteMetas }
    \cup { JsonDict("utf-8", <<Section(key, <<Entry(Id("M", 42), meta),
                                               Entry(Id("M", 31), EmptyMeta)>>)>>) :
             key \in SectionKeys, meta \in NoteMetas }

\* the texts of the note
NoteTexts == { <<"n","i","c","e">>, <<"M","U+008E","c","h","a","i","n">>, <<" ">>, <<>> }

InitRoundTrip ==
  /\ files \in SUBSET { [dir |-> "lib/a", name |-> <<"a","_","M","4","2",".","j","p","g">>] }
  /\ config = [catalogs |-> <<MessierCfg>>,
               master_image_dir |-> "",
               observer |-> [latitude |-> None, longitude |-> None]]
  /\ \E content \in NoteContents :
       /\ metadata = [f \in {"m.json", "n.json", "i.json"} |->
                        IF f = "m.json" THEN content ELSE Missing]
       /\ \E object_id \in { Id("M", 42) } \cup
                           { content.data[1].entries[j].object_id :
                               j \in (IF content.kind = "dict"
                                      THEN DOMAIN content.data[1].entries ELSE {}) } :
            \E notes \in NoteTexts :
              note_call = [catalog_name |-> Messier, object_id |-> object_id,
                           notes |-> notes, made |-> FALSE, raised |-> FALSE,
                           before |-> <<>>, file_before |-> content]
  /\ items = <<>>
  /\ loaded = 0
  /\ pc = "load"
  /\ ExtractIdle
  /\ ExpandIdle
  /\ image_dirs = <<>> /\ walked = 0 /\ index = <<>> /\ seen = <<>>
  /\ sha256 = <<>> /\ scanned = 0 /\ groups = <<>> /\ report = <<>> /\ payload = <<>>
  /\ RouterIdle
  /\ ThumbIdle
  /\ SaveIdle
  /\ MonthIdle
  /\ ComputeIdle

\* the user edits the note of a loaded record: save_note runs on the file,
\* and the catalog is loaded again
SaveNote ==
  /\ pc = "done"
  /\ ~note_call.made
  /\ LET saved == save_note(metadata["m.json"], note_call.catalog_name,
                            note_call.object_id, note_call.notes)
     IN /\ metadata' = [metadata EXCEPT !["m.json"] = saved.content]
        /\ note_call' = [note_call EXCEPT !.made = TRUE, !.raised = saved.raised,
                                          !.before = items]
  /\ items' = <<>>
  /\ loaded' = 0
  /\ pc' = "load"
  /\ UNCHANGED <<files, config>>
  /\ UNCHANGED <<extractVars, expandVars, image_dirs, walked, index, seen,
                 sha256, scanned, groups, report, payload, routerVars, thumbVars,
                 saveVars, monthVars, computeVars>>

NextRoundTrip == LoadCatalog \/ Return \/ SaveNote

SpecRoundTrip == InitRoundTrip /\ [][NextRoundTrip]_vars

\* the (catalog, object_id) pairs of a list of records
RecordKeys(records) == { <<records[i].catalog, records[i].object_id>> : i \in DOMAIN records }

\* C28: when the second load is over, the records have the same (catalog,
\* object_id) pairs as before the save; the record of the noted id has the
\* notes of the call (none when the text is blank) and is otherwise as before;
\* every other record is as before; and a save on a missing file leaves the
\* file missing.
C28_SaveLoadRoundTrip ==
  (pc = "done" /\ note_call.made) =>
    LET before == note_call.before
        noted == IF Strip(note_call.notes) # <<>> THEN Str(note_call.notes) ELSE None
    IN /\ note_call.file_before = Missing => metadata["m.json"] = Missing
       /\ RecordKeys(items) = RecordKeys(before)
       /\ \A i \in DOMAIN items : \A b \in DOMAIN before :
            (items[i].object_id = before[b].object_id /\ items[i].catalog = before[b].catalog) =>
              IF items[i].object_id = note_call.object_id /\ note_call.file_before # Missing
              THEN items[i] = [before[b] EXCEPT !.notes = noted]
              ELSE items[i] = before[b]

====
